---- MODULE Spec2Model ----
(***************************************************************************)
(* Embedding, removing and extracting an ASCII-armored signature appended  *)
(* to an AppImage file: AppImageResigner (src/resigner.py), the            *)
(* embed_signature script (embed_signature.py) and                         *)
(* AppImageVerifier.extract_embedded_signature (src/verify.py).            *)
(*                                                                         *)
(* Files are sequences of byte values; Python's 0-based offsets are kept   *)
(* (offset i is element i+1 of the sequence).                              *)
(***************************************************************************)
EXTENDS Integers, Sequences, FiniteSets, TLC

\* ------------------------------------------------------------------ bytes

\* b'-----BEGIN PGP SIGNATURE-----'
BEGIN_MARKER ==
    <<45, 45, 45, 45, 45, 66, 69, 71, 73, 78, 32, 80, 71, 80, 32,
      83, 73, 71, 78, 65, 84, 85, 82, 69, 45, 45, 45, 45, 45>>

\* '-----END PGP SIGNATURE-----'
END_MARKER ==
    <<45, 45, 45, 45, 45, 69, 78, 68, 32, 80, 71, 80, 32,
      83, 73, 71, 78, 65, 84, 85, 82, 69, 45, 45, 45, 45, 45>>

\* data[:n]
Prefix(data, n) == SubSeq(data, 1, n)

\* data[n:]
Suffix(data, n) == SubSeq(data, n + 1, Len(data))

\* pat occurs in data at (0-based) offset i
MatchAt(data, pat, i) ==
    /\ i >= 0
    /\ i + Len(pat) <= Len(data)
    /\ \A k \in 1..Len(pat) : data[i + k] = pat[k]

\* bytes.__contains__ : pat in data
Contains(data, pat) ==
    \E i \in 0..(Len(data) - Len(pat)) : MatchAt(data, pat, i)

\* bytes.rfind : the highest offset at which pat occurs, -1 when it does not
RFind(data, pat) ==
    IF Contains(data, pat)
    THEN CHOOSE i \in 0..(Len(data) - Len(pat)) :
            /\ MatchAt(data, pat, i)
            /\ \A j \in (i + 1)..(Len(data) - Len(pat)) : ~MatchAt(data, pat, j)
    ELSE -1

\* str.encode('utf-8'), for code points below 2048
RECURSIVE Utf8Encode(_)
Utf8Encode(text) ==
    IF \A i \in 1..Len(text) : text[i] < 128 THEN text
    ELSE LET k == CHOOSE i \in 1..Len(text) :
                    /\ text[i] >= 128
                    /\ \A j \in 1..(i - 1) : text[j] < 128
             c == text[k]
         IN  SubSeq(text, 1, k - 1)
                \o <<192 + (c \div 64), 128 + (c % 64)>>
                \o Utf8Encode(SubSeq(text, k + 1, Len(text)))

\* text.replace(old, new) for a one- or two-character old and a one-character new
RECURSIVE Replace(_, _, _)
Replace(text, old, new) ==
    IF ~Contains(text, old) THEN text
    ELSE LET i == CHOOSE k \in 0..(Len(text) - Len(old)) :
                    /\ MatchAt(text, old, k)
                    /\ \A j \in 0..(k - 1) : ~MatchAt(text, old, j)
         IN  Prefix(text, i) \o new \o Replace(Suffix(text, i + Len(old)), old, new)

\* the first replace alone: signature_text.replace('\r\n', '\n')
sign_normalize_crlf_only(signature_text) ==
    Replace(signature_text, <<13, 10>>, <<10>>)

\* signature_text.replace('\r\n', '\n').replace('\r', '\n')
sign_normalize(signature_text) ==
    Replace(Replace(signature_text, <<13, 10>>, <<10>>), <<13>>, <<10>>)

\* ------------------------------------------- sign_appimage: clean payload

\* the backward whitespace trim of sign_appimage
RECURSIVE sign_data_end(_, _)
sign_data_end(original_data, data_end) ==
    IF data_end > 0 /\ original_data[data_end] \in {10, 13, 32, 9}
    THEN sign_data_end(original_data, data_end - 1)
    ELSE data_end

\* sign_clean_data that cuts at the marker and leaves the separator
\* whitespace in place
sign_clean_data_no_trim(original_data) ==
    IF Contains(original_data, BEGIN_MARKER)
    THEN Prefix(original_data, RFind(original_data, BEGIN_MARKER))
    ELSE original_data

\* sign_clean_data that removes nothing
sign_clean_data_keep(original_data) == original_data

\* sign_clean_data whose slice ends one byte early
sign_clean_data_short(original_data) ==
    IF Contains(original_data, BEGIN_MARKER)
    THEN LET sig_start == RFind(original_data, BEGIN_MARKER)
         IN  Prefix(original_data,
                    sign_data_end(original_data, sig_start) - 1)
    ELSE original_data

\* sign_clean_data that trims trailing whitespace whether or not a marker
\* is there
sign_clean_data_always_trim(original_data) ==
    LET sig_start == IF Contains(original_data, BEGIN_MARKER)
                     THEN RFind(original_data, BEGIN_MARKER)
                     ELSE Len(original_data)
    IN  Prefix(original_data, sign_data_end(original_data, sig_start))

\* original_data after "Check if there's already an embedded signature and
\* remove it"
sign_clean_data(original_data) ==
    IF Contains(original_data, BEGIN_MARKER)
    THEN LET sig_start == RFind(original_data, BEGIN_MARKER)
         IN  Prefix(original_data, sign_data_end(original_data, sig_start))
    ELSE original_data

\* bytes.decode('utf-8', errors='ignore'), for one- and two-byte sequences:
\* a byte that starts no valid sequence is dropped
RECURSIVE Utf8DecodeIgnore(_)
Utf8DecodeIgnore(bytes) ==
    IF \A i \in 1..Len(bytes) : bytes[i] < 128 THEN bytes
    ELSE LET k == CHOOSE i \in 1..Len(bytes) :
                    /\ bytes[i] >= 128
                    /\ \A j \in 1..(i - 1) : bytes[j] < 128
             b == bytes[k]
             ascii == SubSeq(bytes, 1, k - 1)
         IN  IF /\ b >= 194 /\ b <= 223 /\ Len(bytes) >= k + 1
                /\ bytes[k + 1] >= 128 /\ bytes[k + 1] <= 191
             THEN ascii \o <<(b - 192) * 64 + (bytes[k + 1] - 128)>>
                     \o Utf8DecodeIgnore(SubSeq(bytes, k + 2, Len(bytes)))
             ELSE ascii \o Utf8DecodeIgnore(SubSeq(bytes, k + 1, Len(bytes)))

\* the strict decoder raises UnicodeDecodeError exactly when the lenient one
\* has to drop a byte
Utf8Valid(bytes) == Utf8Encode(Utf8DecodeIgnore(bytes)) = bytes

\* universal newlines of a text-mode read: '\r\n' and a lone '\r' become '\n'
RECURSIVE UniversalNewlines(_)
UniversalNewlines(text) ==
    IF \A i \in 1..Len(text) : text[i] # 13 THEN text
    ELSE LET k == CHOOSE i \in 1..Len(text) :
                    /\ text[i] = 13
                    /\ \A j \in 1..(i - 1) : text[j] # 13
             after == IF Len(text) >= k + 1 /\ text[k + 1] = 10
                      THEN k + 2 ELSE k + 1
         IN  SubSeq(text, 1, k - 1) \o <<10>>
                \o UniversalNewlines(SubSeq(text, after, Len(text)))

\* -------------------------------------- embed_signature.py: clean payload

\* "Trim backwards over whitespace"
RECURSIVE embed_sig_start(_, _)
embed_sig_start(appimage_data, sig_start) ==
    IF sig_start > 0 /\ appimage_data[sig_start] \in {10, 13, 32, 9}
    THEN embed_sig_start(appimage_data, sig_start - 1)
    ELSE sig_start

\* appimage_data after "Remove existing embedded signature"
embed_clean_data(appimage_data) ==
    LET sig_start == RFind(appimage_data, BEGIN_MARKER)
    IN  Prefix(appimage_data, embed_sig_start(appimage_data, sig_start))

\* ------------------------------- extract_embedded_signature: what was signed

\* extract_data_end with the tab left out of the whitespace tuple
RECURSIVE extract_data_end_no_tab(_, _)
extract_data_end_no_tab(content, data_end) ==
    IF data_end > 0 /\ content[data_end] \in {10, 13, 32}
    THEN extract_data_end_no_tab(content, data_end - 1)
    ELSE data_end

\* "Skip backwards over any whitespace/newlines before the signature"
RECURSIVE extract_data_end(_, _)
extract_data_end(content, data_end) ==
    IF data_end > 0 /\ content[data_end] \in {10, 13, 32, 9}
    THEN extract_data_end(content, data_end - 1)
    ELSE data_end

\* data_before_sig = content[:data_end]
extract_data_before_sig(content) ==
    LET sig_start == RFind(content, BEGIN_MARKER)
    IN  Prefix(content, extract_data_end(content, sig_start))

\* sig_data.replace('\r\n', '\n').replace('\r', '\n')
extract_normalize(sig_data) ==
    Replace(Replace(sig_data, <<13, 10>>, <<10>>), <<13>>, <<10>>)

\* sig_data: content[sig_start:], decoded, line endings normalized
extract_sig_data(content) ==
    LET sig_start == RFind(content, BEGIN_MARKER)
        sig_data == Utf8DecodeIgnore(Suffix(content, sig_start))
    IN  extract_normalize(sig_data)

\* ----------------------------------------------- parse_signature_metadata

\* Python's None, and a value that is present
None == <<>>
Some(value) == <<value>>

\* decoded[idx], for Python's 0-based idx
At(decoded, idx) == decoded[idx + 1]

\* struct.unpack('>H', decoded[idx:idx+2])[0]
UnpackH(decoded, idx) == At(decoded, idx) * 256 + At(decoded, idx + 1)

\* struct.unpack('>I', decoded[idx:idx+4])[0]
UnpackI(decoded, idx) ==
    ((At(decoded, idx) * 256 + At(decoded, idx + 1)) * 256
        + At(decoded, idx + 2)) * 256 + At(decoded, idx + 3)

\* '-----BEGIN PGP SIGNATURE-----' without its dashes: 'BEGIN PGP SIGNATURE'
BEGIN_LINE_TEXT == SubSeq(BEGIN_MARKER, 6, 24)

\* 'END PGP SIGNATURE'
END_LINE_TEXT == SubSeq(END_MARKER, 6, 22)

\* str.split(sep) for a one-character sep
RECURSIVE Split(_, _)
Split(text, sep) ==
    IF \A i \in 1..Len(text) : text[i] # sep THEN <<text>>
    ELSE LET i == CHOOSE k \in 1..Len(text) :
                    /\ text[k] = sep
                    /\ \A j \in 1..(k - 1) : text[j] # sep
         IN  <<SubSeq(text, 1, i - 1)>>
                \o Split(SubSeq(text, i + 1, Len(text)), sep)

\* the characters str.strip() removes, among code points below 2048
Whitespace == {9, 10, 11, 12, 13, 28, 29, 30, 31, 32, 133, 160}

\* line.strip()
Strip(line) ==
    LET keep == {i \in 1..Len(line) : line[i] \notin Whitespace}
    IN  IF keep = {} THEN <<>>
        ELSE SubSeq(line,
                    CHOOSE i \in keep : \A j \in keep : i <= j,
                    CHOOSE i \in keep : \A j \in keep : j <= i)

\* the lines taken apart at '\r' instead
parse_lines_at_cr(signature_data) == Split(signature_data, 13)

\* lines = signature_data.split('\n')
parse_lines(signature_data) == Split(signature_data, 10)

\* the loop without 'and not line.startswith('=')'
RECURSIVE base64_lines_with_crc(_, _)
base64_lines_with_crc(lines, in_signature) ==
    IF lines = <<>> THEN <<>>
    ELSE LET line == Strip(Head(lines)) IN
         IF Contains(line, BEGIN_LINE_TEXT)
         THEN base64_lines_with_crc(Tail(lines), TRUE)
         ELSE IF Contains(line, END_LINE_TEXT) THEN <<>>
         ELSE IF in_signature /\ line # <<>>
              THEN line \o base64_lines_with_crc(Tail(lines), in_signature)
              ELSE base64_lines_with_crc(Tail(lines), in_signature)

\* the loop over the lines, joined: ''.join(base64_lines).  No line that is
\* appended is empty, so the list is empty exactly when the joined text is.
RECURSIVE base64_lines(_, _)
base64_lines(lines, in_signature) ==
    IF lines = <<>> THEN <<>>
    ELSE LET line == Strip(Head(lines)) IN
         IF Contains(line, BEGIN_LINE_TEXT)
         THEN base64_lines(Tail(lines), TRUE)
         ELSE IF Contains(line, END_LINE_TEXT) THEN <<>>
         ELSE IF in_signature /\ line # <<>> /\ ~MatchAt(line, <<61>>, 0)
              THEN line \o base64_lines(Tail(lines), in_signature)
              ELSE base64_lines(Tail(lines), in_signature)

\* the value of a character of the base64 alphabet, 64 for any other
B64Value(ch) ==
    IF ch \in 65..90 THEN ch - 65
    ELSE IF ch \in 97..122 THEN ch - 71
    ELSE IF ch \in 48..57 THEN ch + 4
    ELSE IF ch = 43 THEN 62
    ELSE IF ch = 47 THEN 63
    ELSE 64

\* binascii.a2b_base64 without strict mode, as base64.b64decode calls it: a
\* character outside the alphabet is skipped; '=' ends the data once it
\* completes a quad (quad_pos >= 2 and quad_pos + pads >= 4, pads counting
\* the '=' since the last character of the alphabet); data that stop inside
\* a quad raise binascii.Error
a2b_base64(ascii_data) ==
    LET InAlphabet(ch) == B64Value(ch) < 64
        \* quad_pos before the character at position i
        quad_pos(i) == Len(SelectSeq(SubSeq(ascii_data, 1, i - 1), InAlphabet)) % 4
        \* pads once the '=' at position i is counted
        pads(i) ==
            Cardinality({j \in 1..i :
                /\ ascii_data[j] = 61
                /\ \A m \in j..i : ~InAlphabet(ascii_data[m])})
        done == {i \in 1..Len(ascii_data) :
                    /\ ascii_data[i] = 61
                    /\ quad_pos(i) >= 2
                    /\ quad_pos(i) + pads(i) >= 4}
        stop == IF done = {} THEN Len(ascii_data) + 1
                ELSE CHOOSE i \in done : \A j \in done : i <= j
        value == [i \in 1..(stop - 1) |-> B64Value(ascii_data[i])]
        v == SelectSeq(value, LAMBDA x : x < 64)
        n == (Len(v) \div 4) * 3
                + (IF Len(v) % 4 = 3 THEN 2 ELSE IF Len(v) % 4 = 2 THEN 1 ELSE 0)
        byte(k) ==
            LET q == ((k - 1) \div 3) * 4 IN
            IF (k - 1) % 3 = 0 THEN v[q + 1] * 4 + v[q + 2] \div 16
            ELSE IF (k - 1) % 3 = 1 THEN (v[q + 2] % 16) * 16 + v[q + 3] \div 4
            ELSE (v[q + 3] % 4) * 64 + v[q + 4]
    IN  IF done = {} /\ Len(v) % 4 # 0
        THEN [raised |-> TRUE, bytes |-> <<>>]
        ELSE [raised |-> FALSE, bytes |-> [k \in 1..n |-> byte(k)]]

\* base64.b64decode(base64_data): a str with a character that is not ASCII
\* raises ValueError before anything is decoded
b64decode(base64_data) ==
    IF \E i \in 1..Len(base64_data) : base64_data[i] > 127
    THEN [raised |-> TRUE, bytes |-> <<>>]
    ELSE a2b_base64(base64_data)

\* get_algorithm_name(algo_id)
get_algorithm_name(algo_id) ==
    CASE algo_id = 1 -> "RSA (Encrypt or Sign)"
      [] algo_id = 2 -> "RSA (Encrypt Only)"
      [] algo_id = 3 -> "RSA (Sign Only)"
      [] algo_id = 16 -> "Elgamal (Encrypt Only)"
      [] algo_id = 17 -> "DSA (Digital Signature Algorithm)"
      [] algo_id = 18 -> "ECDH (Elliptic Curve)"
      [] algo_id = 19 -> "ECDSA (Elliptic Curve Digital Signature Algorithm)"
      [] algo_id = 22 -> "EdDSA (Ed25519/Ed448)"
      [] algo_id = 23 -> "AEDH"
      [] algo_id = 24 -> "AEDSA"
      [] OTHER -> "Unknown Algorithm (" \o ToString(algo_id) \o ")"

\* get_hash_algorithm_name(hash_id)
get_hash_algorithm_name(hash_id) ==
    CASE hash_id = 1 -> "MD5"
      [] hash_id = 2 -> "SHA-1"
      [] hash_id = 3 -> "RIPEMD-160"
      [] hash_id = 8 -> "SHA-256"
      [] hash_id = 9 -> "SHA-384"
      [] hash_id = 10 -> "SHA-512"
      [] hash_id = 11 -> "SHA-224"
      [] OTHER -> "Unknown Hash (" \o ToString(hash_id) \o ")"

\* the dict parse_signature_metadata starts from; a key the code adds later
\* ('algorithm_id', 'hash_algorithm_id', 'parse_error') is None until then
EmptyMetadata ==
    [raw_available |-> FALSE, algorithm |-> None, hash_algorithm |-> None,
     timestamp |-> None, timestamp_readable |-> None, key_id |-> None,
     signature_type |-> None, version |-> None, algorithm_id |-> None,
     hash_algorithm_id |-> None, parse_error |-> None]

\* f'{b:02x}', in lower case
Hex02X_lower(b) ==
    LET digit(n) == IF n < 10 THEN 48 + n ELSE 87 + n
    IN  <<digit(b \div 16), digit(b % 16)>>

\* f'{b:02X}' as two characters
Hex02X(b) ==
    LET digit(n) == IF n < 10 THEN 48 + n ELSE 55 + n
    IN  <<digit(b \div 16), digit(b % 16)>>

\* ''.join(f'{b:02X}' for b in key_id_bytes)
RECURSIVE KeyIdText(_)
KeyIdText(key_id_bytes) ==
    IF key_id_bytes = <<>> THEN <<>>
    ELSE Hex02X(Head(key_id_bytes)) \o KeyIdText(Tail(key_id_bytes))

\* metadata['timestamp'] and metadata['timestamp_readable'] are set together;
\* the local-time text is kept as the timestamp it renders
WithTimestamp(metadata, timestamp) ==
    [metadata EXCEPT !.timestamp = Some(timestamp),
                     !.timestamp_readable = Some([strftime |-> timestamp])]

WithAlgorithm(metadata, pub_key_algo) ==
    [metadata EXCEPT !.algorithm = Some(get_algorithm_name(pub_key_algo)),
                     !.algorithm_id = Some(pub_key_algo)]

WithHash(metadata, hash_algo) ==
    [metadata EXCEPT !.hash_algorithm = Some(get_hash_algorithm_name(hash_algo)),
                     !.hash_algorithm_id = Some(hash_algo)]

\* the packet tag and the length octets: the packet type, the length where
\* the code assigns one, and idx after the header
packet_header(decoded) ==
    LET packet_tag == At(decoded, 0)
        n == Len(decoded)
    IN  IF (packet_tag \div 64) % 2 = 1
        THEN LET packet_type == packet_tag % 64
                 length_byte == At(decoded, 1)
             IN  IF ~(1 < n)
                 THEN [packet_type |-> packet_type, packet_length |-> None,
                       idx |-> 1]
                 ELSE IF length_byte < 192
                 THEN [packet_type |-> packet_type,
                       packet_length |-> Some(length_byte), idx |-> 2]
                 ELSE IF length_byte < 224 /\ 2 < n
                 THEN [packet_type |-> packet_type,
                       packet_length |->
                           Some((length_byte - 192) * 256 + At(decoded, 2) + 192),
                       idx |-> 3]
                 ELSE [packet_type |-> packet_type, packet_length |-> None,
                       idx |-> 2]
        ELSE LET packet_type == (packet_tag \div 4) % 16
                 length_type == packet_tag % 4
             IN  IF length_type = 0
                 THEN [packet_type |-> packet_type,
                       packet_length |->
                           Some(IF 1 < n THEN At(decoded, 1) ELSE 0),
                       idx |-> 2]
                 ELSE IF length_type = 1
                 THEN [packet_type |-> packet_type,
                       packet_length |->
                           Some(IF 2 < n THEN UnpackH(decoded, 1) ELSE 0),
                       idx |-> 3]
                 ELSE IF length_type = 2
                 THEN [packet_type |-> packet_type,
                       packet_length |->
                           Some(IF 4 < n THEN UnpackI(decoded, 1) ELSE 0),
                       idx |-> 5]
                 ELSE [packet_type |-> packet_type, packet_length |-> None,
                       idx |-> 1]

\* the loop without the tests of sub_length: type 2 and type 16 of any length
RECURSIVE hashed_subpackets_any_length(_, _, _, _)
hashed_subpackets_any_length(decoded, idx, subpacket_end, metadata) ==
    LET n == Len(decoded) IN
    IF ~(idx < subpacket_end /\ idx < n) THEN metadata
    ELSE
    LET first == At(decoded, idx)
        break == \/ first >= 192 /\ first < 255 /\ idx + 1 >= n
                 \/ first >= 255 /\ idx + 4 >= n
        sub_length == IF first < 192 THEN first
                      ELSE IF first < 255
                      THEN (first - 192) * 256 + At(decoded, idx + 1) + 192
                      ELSE UnpackI(decoded, idx + 1)
        at_type == IF first < 192 THEN idx + 1
                   ELSE IF first < 255 THEN idx + 2 ELSE idx + 5
    IN  IF break THEN metadata
        ELSE IF at_type >= n \/ sub_length < 1 THEN metadata
        ELSE
        LET sub_type == At(decoded, at_type)
            at_value == at_type + 1
            value_length == sub_length - 1
            found ==
                IF sub_type = 2
                THEN IF at_value + 4 <= n
                     THEN WithTimestamp(metadata, UnpackI(decoded, at_value))
                     ELSE metadata
                ELSE IF sub_type = 16
                THEN IF at_value + 8 <= n
                     THEN [metadata EXCEPT !.key_id =
                            Some(KeyIdText(SubSeq(decoded, at_value + 1,
                                                  at_value + 8)))]
                     ELSE metadata
                ELSE metadata
        IN  hashed_subpackets_any_length(decoded, at_value + value_length,
                                         subpacket_end, found)

\* the while loop over the hashed subpackets
RECURSIVE hashed_subpackets(_, _, _, _)
hashed_subpackets(decoded, idx, subpacket_end, metadata) ==
    LET n == Len(decoded) IN
    IF ~(idx < subpacket_end /\ idx < n) THEN metadata
    ELSE
    LET first == At(decoded, idx)
        break == \/ first >= 192 /\ first < 255 /\ idx + 1 >= n
                 \/ first >= 255 /\ idx + 4 >= n
        sub_length == IF first < 192 THEN first
                      ELSE IF first < 255
                      THEN (first - 192) * 256 + At(decoded, idx + 1) + 192
                      ELSE UnpackI(decoded, idx + 1)
        at_type == IF first < 192 THEN idx + 1
                   ELSE IF first < 255 THEN idx + 2 ELSE idx + 5
    IN  IF break THEN metadata
        ELSE IF at_type >= n \/ sub_length < 1 THEN metadata
        ELSE
        LET sub_type == At(decoded, at_type)
            at_value == at_type + 1
            value_length == sub_length - 1
            found ==
                IF sub_type = 2 /\ value_length = 4
                THEN IF at_value + 4 <= n
                     THEN WithTimestamp(metadata, UnpackI(decoded, at_value))
                     ELSE metadata
                ELSE IF sub_type = 16 /\ value_length = 8
                THEN IF at_value + 8 <= n
                     THEN [metadata EXCEPT !.key_id =
                            Some(KeyIdText(SubSeq(decoded, at_value + 1,
                                                  at_value + 8)))]
                     ELSE metadata
                ELSE metadata
        IN  hashed_subpackets(decoded, at_value + value_length,
                              subpacket_end, found)

\* the version 4 and 5 branch, from idx after the version octet
signature_v4(decoded, idx, metadata) ==
    LET n == Len(decoded) IN
    IF idx >= n THEN metadata
    ELSE
    LET m1 == [metadata EXCEPT !.signature_type = Some(At(decoded, idx))] IN
    IF idx + 1 >= n THEN m1
    ELSE
    LET m2 == WithAlgorithm(m1, At(decoded, idx + 1)) IN
    IF idx + 2 >= n THEN m2
    ELSE
    LET m3 == WithHash(m2, At(decoded, idx + 2)) IN
    IF idx + 3 + 1 >= n THEN m3
    ELSE
    LET hashed_length == UnpackH(decoded, idx + 3)
    IN  hashed_subpackets(decoded, idx + 5, idx + 5 + hashed_length, m3)

\* the version 3 branch without the skip of the hashed material length
signature_v3_no_skip(decoded, idx, metadata) ==
    LET n == Len(decoded)
        at_type == idx
    IN
    IF at_type >= n THEN metadata
    ELSE
    LET m1 == [metadata EXCEPT !.signature_type = Some(At(decoded, at_type))]
        at_time == at_type + 1
        has_time == at_time + 4 <= n
        m2 == IF has_time THEN WithTimestamp(m1, UnpackI(decoded, at_time))
              ELSE m1
        at_key == IF has_time THEN at_time + 4 ELSE at_time
        has_key == at_key + 8 <= n
        m3 == IF has_key
              THEN [m2 EXCEPT !.key_id =
                       Some(KeyIdText(SubSeq(decoded, at_key + 1, at_key + 8)))]
              ELSE m2
        at_algo == IF has_key THEN at_key + 8 ELSE at_key
        has_algo == at_algo < n
        m4 == IF has_algo THEN WithAlgorithm(m3, At(decoded, at_algo)) ELSE m3
        at_hash == IF has_algo THEN at_algo + 1 ELSE at_algo
    IN  IF at_hash < n THEN WithHash(m4, At(decoded, at_hash)) ELSE m4

\* the version 3 branch, from idx after the version octet
signature_v3(decoded, idx, metadata) ==
    LET n == Len(decoded)
        at_type == idx + 1
    IN
    IF at_type >= n THEN metadata
    ELSE
    LET m1 == [metadata EXCEPT !.signature_type = Some(At(decoded, at_type))]
        at_time == at_type + 1
        has_time == at_time + 4 <= n
        m2 == IF has_time THEN WithTimestamp(m1, UnpackI(decoded, at_time))
              ELSE m1
        at_key == IF has_time THEN at_time + 4 ELSE at_time
        has_key == at_key + 8 <= n
        m3 == IF has_key
              THEN [m2 EXCEPT !.key_id =
                       Some(KeyIdText(SubSeq(decoded, at_key + 1, at_key + 8)))]
              ELSE m2
        at_algo == IF has_key THEN at_key + 8 ELSE at_key
        has_algo == at_algo < n
        m4 == IF has_algo THEN WithAlgorithm(m3, At(decoded, at_algo)) ELSE m3
        at_hash == IF has_algo THEN at_algo + 1 ELSE at_algo
    IN  IF at_hash < n THEN WithHash(m4, At(decoded, at_hash)) ELSE m4

\* the packet structure of the decoded bytes, from 'idx = 0' on
parse_packet(decoded, metadata) ==
    LET header == packet_header(decoded)
        idx == header.idx
    IN  IF header.packet_type # 2 THEN metadata
        ELSE IF idx >= Len(decoded) THEN metadata
        ELSE LET version == At(decoded, idx)
                 m0 == [metadata EXCEPT !.version = Some(version)]
             IN  IF version = 4 \/ version = 5
                 THEN signature_v4(decoded, idx + 1, m0)
                 ELSE IF version = 3
                 THEN signature_v3(decoded, idx + 1, m0)
                 ELSE m0

\* base64_data = ''.join(base64_lines)
parse_base64_data(signature_data) ==
    base64_lines(parse_lines(signature_data), FALSE)

\* parse_signature_metadata(signature_data).  No statement after the length
\* check can raise: every read of decoded is behind a bounds test.
parse_signature_metadata(signature_data) ==
    LET base64_data == parse_base64_data(signature_data)
        decoding == b64decode(base64_data)
        decoded == decoding.bytes
    IN  IF base64_data = <<>> THEN EmptyMetadata
        ELSE IF decoding.raised
        THEN [EmptyMetadata EXCEPT !.parse_error = Some("Base64 decode error")]
        ELSE IF Len(decoded) < 10
        THEN [EmptyMetadata EXCEPT
                 !.parse_error = Some("Signature data too short")]
        ELSE parse_packet(decoded,
                          [EmptyMetadata EXCEPT !.raw_available = TRUE])

\* ------------------------------------- AppImageVerifier.get_signature_info

\* sep.join(lines)
RECURSIVE Join(_, _)
Join(lines, sep) ==
    IF lines = <<>> THEN <<>>
    ELSE IF Len(lines) = 1 THEN Head(lines)
    ELSE Head(lines) \o sep \o Join(Tail(lines), sep)

\* sig_start found as the first occurrence instead
inspect_sig_start_first(content) ==
    CHOOSE i \in 0..(Len(content) - Len(BEGIN_MARKER)) :
        /\ MatchAt(content, BEGIN_MARKER, i)
        /\ \A j \in 0..(i - 1) : ~MatchAt(content, BEGIN_MARKER, j)

\* sig_start = content.rfind(b'-----BEGIN PGP SIGNATURE-----')
inspect_sig_start(content) == RFind(content, BEGIN_MARKER)

\* sig_data = content[sig_start:].decode('utf-8', errors='ignore')
inspect_sig_data(content) ==
    Utf8DecodeIgnore(Suffix(content, inspect_sig_start(content)))

\* the 'signature_data' entry: the first ten lines and '\n...', or all of it
signature_preview(text) ==
    LET sig_lines == Split(text, 10)
    IN  IF Len(sig_lines) > 10
        THEN Join(SubSeq(sig_lines, 1, 10), <<10>>) \o <<10, 46, 46, 46>>
        ELSE text

\* the dict get_signature_info returns; a key it leaves out is None or empty
NoInfo ==
    [has_signature |-> FALSE, type |-> "none", error |-> "none",
     signature_data |-> <<>>, size |-> 0, metadata |-> None]

SignatureFound(type, text) ==
    [has_signature |-> TRUE, type |-> type, error |-> "none",
     signature_data |-> signature_preview(text), size |-> Len(text),
     metadata |-> Some(parse_signature_metadata(text))]

\* the two branches the other way round: the .asc file before the marker
get_signature_info_asc_first(exists, content, has_asc, asc_content) ==
    IF ~exists
    THEN [NoInfo EXCEPT !.error = "AppImage file not found"]
    ELSE IF has_asc
    THEN IF Utf8Valid(asc_content)
         THEN SignatureFound("external",
                             UniversalNewlines(Utf8DecodeIgnore(asc_content)))
         ELSE [NoInfo EXCEPT !.error = "Error reading signature"]
    ELSE IF Contains(content, BEGIN_MARKER)
    THEN SignatureFound("embedded", inspect_sig_data(content))
    ELSE [NoInfo EXCEPT !.error = "No signature found"]

\* without the asc_path.exists() test: the .asc file is read in any case
get_signature_info_no_asc_test(exists, content, has_asc, asc_content) ==
    IF ~exists
    THEN [NoInfo EXCEPT !.error = "AppImage file not found"]
    ELSE IF Contains(content, BEGIN_MARKER)
    THEN SignatureFound("embedded", inspect_sig_data(content))
    ELSE IF Utf8Valid(asc_content)
    THEN SignatureFound("external",
                        UniversalNewlines(Utf8DecodeIgnore(asc_content)))
    ELSE [NoInfo EXCEPT !.error = "Error reading signature"]

\* get_signature_info(appimage_path) on the files as they are.  The .asc file
\* is read in text mode: bytes that are no UTF-8 raise, and the except
\* clause answers
get_signature_info(exists, content, has_asc, asc_content) ==
    IF ~exists
    THEN [NoInfo EXCEPT !.error = "AppImage file not found"]
    ELSE IF Contains(content, BEGIN_MARKER)
    THEN SignatureFound("embedded", inspect_sig_data(content))
    ELSE IF has_asc
    THEN IF Utf8Valid(asc_content)
         THEN SignatureFound("external",
                             UniversalNewlines(Utf8DecodeIgnore(asc_content)))
         ELSE [NoInfo EXCEPT !.error = "Error reading signature"]
    ELSE [NoInfo EXCEPT !.error = "No signature found"]

\* ------------------------------------------------------------------ inputs

\* longest initial AppImage content, counted in pieces of ContainerPieces
MaxPieces == 2

\* most operations run one after the other on the same file
MaxOps == 2

\* an armored detached signature as gpg --armor prints it, with line ending nl
ArmorText(nl, body) ==
    BEGIN_MARKER \o nl \o nl \o body \o nl \o END_MARKER \o nl

\* a whole armor block as another tool appended it, after a space and a
\* Windows line ending
AppendedArmor == <<32, 13, 10>> \o ArmorText(<<13, 10>>, <<67>>)

\* what an AppImage file is put together from: an ordinary byte, a newline,
\* the text of the begin marker, and an appended armor block
ContainerPieces == {<<120>>, <<10>>, BEGIN_MARKER, AppendedArmor}

RECURSIVE Containers(_)
Containers(n) ==
    IF n = 0 THEN {<<>>}
    ELSE LET shorter == Containers(n - 1)
         IN  shorter \cup {c \o p : c \in shorter, p \in ContainerPieces}

\* ------------------------------------------------ signatures as gpg writes them

\* the character of a six-bit value in the base64 alphabet
B64Char(value) ==
    IF value < 26 THEN 65 + value
    ELSE IF value < 52 THEN 71 + value
    ELSE IF value < 62 THEN value - 4
    ELSE IF value = 62 THEN 43
    ELSE 47

\* radix-64 of RFC 4880 6.3, as gpg --armor encodes the packet
B64Encode(bytes) ==
    LET n == Len(bytes)
        byte(i) == IF i <= n THEN bytes[i] ELSE 0
        char(k) ==
            LET g == ((k - 1) \div 4) * 3
                r == (k - 1) % 4
            IN  IF r = 0 THEN B64Char(byte(g + 1) \div 4)
                ELSE IF r = 1
                THEN B64Char((byte(g + 1) % 4) * 16 + byte(g + 2) \div 16)
                ELSE IF r = 2
                THEN IF g + 2 > n THEN 61
                     ELSE B64Char((byte(g + 2) % 16) * 4 + byte(g + 3) \div 64)
                ELSE IF g + 3 > n THEN 61
                     ELSE B64Char(byte(g + 3) % 64)
    IN  [k \in 1..(((n + 2) \div 3) * 4) |-> char(k)]

\* the armor body in lines of 64 characters, each followed by nl
RECURSIVE WrapLines(_, _)
WrapLines(base64_text, nl) ==
    IF Len(base64_text) <= 64 THEN base64_text \o nl
    ELSE SubSeq(base64_text, 1, 64) \o nl
            \o WrapLines(SubSeq(base64_text, 65, Len(base64_text)), nl)

\* hashed subpackets: signature creation time 1700000000, issuer key ID
\* 0123456789ABCDEF, and key flags, a type the parser does not read
CreationTimeSubpacket == <<5, 2, 101, 83, 241, 0>>
IssuerSubpacket == <<9, 16, 1, 35, 69, 103, 137, 171, 205, 239>>
KeyFlagsSubpacket == <<2, 27, 3>>

\* a length written in five octets: 255 and four octets, big-endian
LongLength(n) == <<255, 0, 0, n \div 256, n % 256>>

\* a notation subpacket (type 20) of 192 octets, the shortest whose length
\* takes two octets: 192, 0
NotationSubpacket == <<192, 0, 20>> \o [i \in 1..191 |-> 32 + (i % 64)]

\* a subpacket of a type nobody has assigned, whose value looks like a
\* creation time subpacket
UnknownSubpacket == <<7, 100, 5, 2, 1, 2, 3, 4>>

\* type 2 with a value of three octets, type 16 with a value of nine
ShortTimeSubpacket == <<4, 2, 101, 83, 241>>
LongIssuerSubpacket == <<10, 16, 1, 35, 69, 103, 137, 171, 205, 239, 0>>

\* the hashed subpacket region in one of the orders a signer may write
HashedSubpackets(layout) ==
    CASE layout = "time_issuer" -> CreationTimeSubpacket \o IssuerSubpacket
      [] layout = "issuer_time" -> IssuerSubpacket \o CreationTimeSubpacket
      [] layout = "flags_time_issuer" ->
            KeyFlagsSubpacket \o CreationTimeSubpacket \o IssuerSubpacket
      [] layout = "five_octet_lengths" ->
            LongLength(5) \o Tail(CreationTimeSubpacket)
                \o LongLength(9) \o Tail(IssuerSubpacket)
      [] layout = "notation_time_issuer" ->
            NotationSubpacket \o CreationTimeSubpacket \o IssuerSubpacket
      [] layout = "time_unknown_issuer" ->
            CreationTimeSubpacket \o UnknownSubpacket \o IssuerSubpacket
      [] layout = "short_time_issuer" ->
            ShortTimeSubpacket \o IssuerSubpacket
      [] layout = "time_long_issuer" ->
            CreationTimeSubpacket \o LongIssuerSubpacket

\* what follows the fields the parser reads: the left 16 bits of the hash
\* and one multiprecision integer of 137 bits
SignatureTrailer ==
    <<170, 187, 0, 137, 1>> \o [i \in 1..17 |-> 16 + i]

\* the body of a signature packet: RFC 4880 5.2.2 for version 3, 5.2.3 for
\* every other version octet
SignatureBody(p) ==
    IF p.version = 3
    THEN <<3, 5, p.sig_type, 101, 83, 241, 0,
           1, 35, 69, 103, 137, 171, 205, 239,
           p.pub_key_algo, p.hash_algo>> \o SignatureTrailer
    ELSE LET hashed == HashedSubpackets(p.layout)
         IN  <<p.version, p.sig_type, p.pub_key_algo, p.hash_algo,
               0, Len(hashed)>> \o hashed \o <<0, 0>> \o SignatureTrailer

\* the packet: a new-format header with a one-, two- or five-octet length, or
\* an old-format header with a one-, two- or four-octet length (RFC 4880 4.2)
Packet(p) ==
    LET body == SignatureBody(p)
    IN  CASE p.header = "new1" -> <<192 + p.tag, Len(body)>> \o body
          [] p.header = "old1" -> <<128 + p.tag * 4, Len(body)>> \o body
          [] p.header = "old2" -> <<129 + p.tag * 4, 0, Len(body)>> \o body
          [] p.header = "old4" ->
                <<130 + p.tag * 4, 0, 0, Len(body) \div 256, Len(body) % 256>>
                    \o body
          [] p.header = "new2" ->
                <<192 + p.tag, 192 + (Len(body) - 192) \div 256,
                  (Len(body) - 192) % 256>> \o body
          [] p.header = "new5" ->
                <<192 + p.tag>> \o LongLength(Len(body)) \o body

\* the armored text: p.packet_keep octets of the packet, encoded with line
\* ending p.nl, with or without the CRC24 line (whose value nothing reads),
\* and of all that the first p.keep characters
FullArmor(p) ==
    BEGIN_MARKER \o p.nl \o p.nl
        \o WrapLines(B64Encode(Prefix(Packet(p), p.packet_keep)), p.nl)
        \o (IF p.crc THEN <<61, 65, 98, 67, 100>> \o p.nl ELSE <<>>)
        \o END_MARKER \o p.nl

Armor(p) == Prefix(FullArmor(p), p.keep)

\* p with k octets of its packet kept and the whole text of that
WithPacketKeep(p, k) ==
    LET q == [p EXCEPT !.packet_keep = k]
    IN  [q EXCEPT !.keep = Len(FullArmor(q))]

\* nothing is cut off the packet or the text
Whole(p) == WithPacketKeep(p, Len(Packet(p)))

IsWhole(p) == p.packet_keep = Len(Packet(p)) /\ p.keep = Len(FullArmor(p))

\* a version 4 RSA/SHA-256 signature as gpg on Linux prints it
UnixSignature ==
    Whole([header |-> "old2", tag |-> 2, version |-> 4, sig_type |-> 0,
           pub_key_algo |-> 1, hash_algo |-> 8, layout |-> "time_issuer",
           nl |-> <<10>>, crc |-> TRUE, packet_keep |-> 0, keep |-> 0])

\* a version 4 EdDSA/SHA-512 signature as gpg on Windows prints it
WindowsSignature ==
    Whole([UnixSignature EXCEPT !.header = "new1", !.pub_key_algo = 22,
                                !.hash_algo = 10, !.nl = <<13, 10>>])

\* every shape of packet and armor the parser is given whole
WholeSignatures ==
    {Whole([header |-> h, tag |-> t, version |-> v, sig_type |-> s,
            pub_key_algo |-> a, hash_algo |-> d, layout |-> l,
            nl |-> n, crc |-> c, packet_keep |-> 0, keep |-> 0]) :
        h \in {"new1", "old1", "old2"}, t \in {2, 6}, v \in {2, 3, 4, 5, 6},
        s \in {0, 1}, a \in {1, 22}, d \in {8, 10},
        l \in {"time_issuer", "issuer_time", "flags_time_issuer"},
        n \in {<<10>>, <<13, 10>>}, c \in BOOLEAN}

\* the signatures that are cut short
CutBase ==
    {UnixSignature, WindowsSignature,
     Whole([UnixSignature EXCEPT !.version = 3, !.header = "old1"])}

\* a packet that ends early inside a whole armor: its length octets, the
\* hashed region length and the subpacket lengths claim what is not there
CutPackets ==
    UNION {{WithPacketKeep(p, k) : k \in 0..(Len(Packet(p)) - 1)} :
              p \in CutBase}

\* an armored text that ends early: every proper prefix
CutTexts ==
    UNION {{[p EXCEPT !.keep = k] : k \in 0..(Len(FullArmor(p)) - 1)} :
              p \in CutBase}

Signatures == WholeSignatures \cup CutPackets \cup CutTexts

\* the length encodings and subpacket shapes of RFC 4880 4.2.2 and 5.2.3.1:
\* every header that can hold the body's length, around every layout
LengthLayouts ==
    {"time_issuer", "flags_time_issuer", "five_octet_lengths",
     "notation_time_issuer", "time_unknown_issuer", "short_time_issuer",
     "time_long_issuer"}

HeaderHolds(header, body_length) ==
    CASE header \in {"new1"} -> body_length < 192
      [] header \in {"new2"} -> body_length >= 192 /\ body_length < 8384
      [] header \in {"old1"} -> body_length < 256
      [] OTHER -> TRUE

WholeLengthSignatures ==
    {p \in {Whole([header |-> h, tag |-> 2, version |-> v, sig_type |-> 0,
                   pub_key_algo |-> a, hash_algo |-> 8, layout |-> l,
                   nl |-> <<10>>, crc |-> TRUE, packet_keep |-> 0,
                   keep |-> 0]) :
               h \in {"new1", "new2", "new5", "old1", "old2", "old4"},
               v \in {4, 5}, a \in {1, 22}, l \in LengthLayouts} :
        HeaderHolds(p.header, Len(SignatureBody(p)))}

\* the signature whose subpacket lengths take five octets, cut at every octet
CutLengthSignatures ==
    LET p == Whole([UnixSignature EXCEPT !.header = "new1",
                                         !.layout = "five_octet_lengths"])
    IN  {WithPacketKeep(p, k) : k \in 0..(Len(Packet(p)) - 1)}

LengthSignatures == WholeLengthSignatures \cup CutLengthSignatures

\* str(signed_data) of a created signature: Unix and Windows builds of gpg
SignedDataTexts == {Armor(UnixSignature), Armor(WindowsSignature)}

\* a <file>.asc put there by the user that holds no armor block
GarbageAsc == <<120>>

\* ------------------------------------------------------------------- state

VARIABLES
    appimage_exists,    \* the AppImage file exists
    appimage,           \* its bytes on disk
    asc_exists,         \* <appimage>.asc exists
    asc,                \* its bytes on disk
    op,                 \* the operation running or just finished
    pc,                 \* its position
    embed,              \* sign_appimage's embed_signature argument
    original_data,      \* sign_appimage's local
    signature_text,     \* sign_appimage's local
    backup_exists,      \* <appimage>.backup exists
    backup,             \* its bytes on disk
    appimage_data,      \* embed_signature's local
    signature_data,     \* embed_signature's local
    data_before_sig,    \* extract_embedded_signature's local
    sig_data,           \* extract_embedded_signature's local
    result,             \* what the operation returned
    outcome,            \* which write the operation completed
    pre,                \* the AppImage bytes when the operation started
    prev,               \* history: the operation that ran before this one
    ops,                \* operations started so far
    info,               \* what get_signature_info returned
    fn,                 \* the function that was applied on its own
    buffer,             \* TrimSpec: the bytes a trim loop was applied to
    armor_begin,        \* TrimSpec: the offset it started from
    boundary,           \* TrimSpec: the offset it returned
    armor,              \* ParseSpec: the signature that is parsed
    decoded,            \* ParseSpec: parse_signature_metadata's b64decode
    metadata,           \* ParseSpec: what parse_signature_metadata returned
    norm_input,         \* NormSpec: the text that is normalized
    normalized,         \* NormSpec: the text that came out
    sessions,           \* WebSpec: web/app.py's sessions dict
    upload_sessions,    \* WebSpec: StreamingUpload.upload_sessions
    disk,               \* WebSpec: the files of the three directories
    clock,              \* WebSpec: datetime.now(), in hours
    issued,             \* WebSpec: session ids handed out so far
    request,            \* WebSpec: the request handled last
    response,           \* WebSpec: the HTTP status it was answered with
    before,             \* WebSpec: history: the state it found
    requests            \* WebSpec: requests handled so far

vars == <<appimage_exists, appimage, asc_exists, asc, backup_exists, backup,
          op, pc, embed, original_data, signature_text, appimage_data,
          signature_data, data_before_sig, sig_data, result, outcome, pre,
          prev, ops, info, fn, buffer, armor_begin, boundary, armor, decoded,
          metadata, norm_input, normalized, sessions, upload_sessions, disk,
          clock, issued, request, response, before, requests>>

files == <<appimage_exists, appimage, asc_exists, asc, backup_exists, backup>>
locals == <<embed, original_data, signature_text, appimage_data,
            signature_data, data_before_sig, sig_data>>
trim_call == <<fn, buffer, armor_begin, boundary>>
parse_call == <<armor, decoded, metadata>>
norm_call == <<norm_input, normalized>>
web == <<sessions, upload_sessions, disk, clock, issued, request, response,
         before, requests>>
pure_calls == <<trim_call, parse_call, norm_call, web>>
not_web == <<files, op, pc, locals, result, outcome, pre, prev, ops, info,
             trim_call, parse_call, norm_call>>

\* ---------------------------------------------------------------------
\* The web layer (web/app.py, web/services/streaming.py): signing
\* sessions, their files in the upload, signed and key directories, and
\* chunked uploads.
\* ---------------------------------------------------------------------

\* Session ids stand for the uuid4 strings of create_session: the k-th
\* session created gets id k, so ids are unique as uuid4's are.
MaxSessions == 2
SessionIds == 1..MaxSessions

\* Requests handled in one run.
MaxRequests == 5

\* A path: the directory (settings.upload_dir, signed_dir, temp_keys_dir,
\* or "chunks" for upload_dir / session_id), the session id prefix, the
\* file name, and whether ".asc" is appended.  A chunk directory itself is
\* the entry with the empty name.
Path(dir, sid, name) == [dir |-> dir, sid |-> sid, name |-> name, asc |-> FALSE]
NoPath == [dir |-> "", sid |-> 0, name |-> "", asc |-> FALSE]
Asc(path) == [path EXCEPT !.asc = TRUE]
ChunkDir(sid) == Path("chunks", sid, "")

\* f"chunk_{chunk_number:04d}"
ChunkName(chunk_number) ==
    CASE chunk_number = -1 -> "chunk_-001"
      [] chunk_number = 0 -> "chunk_0000"
      [] chunk_number = 1 -> "chunk_0001"
      [] OTHER -> "chunk_0002"
ChunkPath(sid, chunk_number) == Path("chunks", sid, ChunkName(chunk_number))

\* The empty dict, and the empty directory tree.
EmptyMap == [q \in {} |-> <<>>]

\* open(path, 'wb') + write, and unlink, on the disk (a function from the
\* paths that exist to their content).
Put(d, path, data) ==
    [q \in DOMAIN d \cup {path} |-> IF q = path THEN data ELSE d[q]]
Drop(d, path) == [q \in DOMAIN d \ {path} |-> d[q]]
Exists(d, path) == path \in DOMAIN d

\* File contents: an ELF header (magic, 64-bit, little endian), a text
\* file, and the two halves of the ELF header as chunk data.
ElfData == <<127, 69, 76, 70, 2, 1>>
TextData == <<104, 105>>
ElfHead == <<127, 69, 76, 70>>
ElfTail == <<2, 1>>
SigData == <<45, 45>>
Contents == {ElfData, TextData}
ChunkContents == {ElfHead, ElfTail}

\* Uploaded file names, and what sanitize_filename makes of them
\* ('/' -> '_', then '..' -> '_').
FileNames == {"app.AppImage", "../x.AppImage", "notes.txt"}
sanitize_filename(filename) ==
    IF filename = "../x.AppImage" THEN "__x.AppImage" ELSE filename
IsAppImageName(filename) ==
    filename \in {"app.AppImage", "../x.AppImage", "__x.AppImage"}

\* SigningSession.__init__
SigningSession(now) ==
    [created_at |-> now, appimage_path |-> NoPath, key_path |-> NoPath,
     key_fingerprint |-> "", signed_path |-> NoPath,
     signature_path |-> NoPath, status |-> "initialized", error |-> ""]

\* A request as the handlers receive it; fields a handler does not take
\* keep these defaults.
Request(operation, sid) ==
    [operation |-> operation, session_id |-> sid, filename |-> "",
     data |-> <<>>, chunk_number |-> 0, total_size |-> 0,
     file_type |-> "", key_id |-> None, key_fingerprint |-> None,
     passphrase |-> None]

\* The web layer before any request.
WebQuiet ==
    /\ sessions = EmptyMap
    /\ upload_sessions = EmptyMap
    /\ disk = EmptyMap
    /\ clock = 0
    /\ issued = 0
    /\ request = Request("none", 0)
    /\ response = 0
    /\ before = [sessions |-> EmptyMap, upload_sessions |-> EmptyMap,
                 disk |-> EmptyMap, clock |-> 0]
    /\ requests = 0

\* nothing has run before
NoPrev == [kind |-> "none", op |-> "none", pre |-> <<>>, signed |-> <<>>]

Init ==
    /\ appimage_exists \in BOOLEAN
    /\ appimage \in (IF appimage_exists THEN Containers(MaxPieces) ELSE {<<>>})
    /\ asc_exists \in BOOLEAN
    /\ asc = (IF asc_exists THEN GarbageAsc ELSE <<>>)
    /\ backup_exists = FALSE
    /\ backup = <<>>
    /\ appimage_data = <<>>
    /\ signature_data = <<>>
    /\ data_before_sig = <<>>
    /\ sig_data = <<>>
    /\ op = "none"
    /\ pc = "idle"
    /\ embed = FALSE
    /\ original_data = <<>>
    /\ signature_text = <<>>
    /\ result = "none"
    /\ outcome = "none"
    /\ pre = <<>>
    /\ prev = NoPrev
    /\ ops = 0
    /\ info = NoInfo
    /\ fn = "none"
    /\ buffer = <<>>
    /\ armor_begin = 0
    /\ boundary = 0
    /\ WebQuiet
    /\ armor = UnixSignature
    /\ decoded = <<>>
    /\ metadata = EmptyMetadata
    /\ norm_input = <<>>
    /\ normalized = <<>>

\* --------------------------------------- AppImageResigner.sign_appimage

\* entry, existence check, read and removal of an embedded signature
SignStart(e) ==
    /\ pc = "idle"
    /\ ops < MaxOps
    /\ ops' = ops + 1
    /\ outcome' = "none"
    /\ op' = "sign"
    /\ embed' = e
    /\ pre' = appimage
    /\ signature_text' = <<>>
    /\ IF ~appimage_exists
       THEN /\ pc' = "done"
            /\ result' = "false"
            /\ original_data' = <<>>
       ELSE /\ pc' = "sign_gpg"
            /\ result' = "none"
            /\ original_data' = sign_clean_data(appimage)
    /\ UNCHANGED <<files, appimage_data, signature_data, data_before_sig,
                   sig_data>>
    /\ UNCHANGED <<prev, info, pure_calls>>

\* gpg.sign_file answers 'signature created': normalize, write the .asc file
SignCreated(text) ==
    /\ pc = "sign_gpg"
    /\ signature_text' = sign_normalize(text)
    /\ asc_exists' = TRUE
    /\ asc' = Utf8Encode(signature_text')
    /\ pc' = IF embed THEN "embed_open" ELSE "clean_open"
    /\ UNCHANGED <<appimage_exists, appimage, backup_exists, backup, op,
                   embed, original_data, appimage_data, signature_data,
                   data_before_sig, sig_data, result, pre, ops>>
    /\ UNCHANGED <<outcome, prev, info, pure_calls>>

\* gpg.sign_file answers any other status, or raises: return False
SignFailed ==
    /\ pc = "sign_gpg"
    /\ pc' = "done"
    /\ result' = "false"
    /\ UNCHANGED <<files, op, locals, pre, ops>>
    /\ UNCHANGED <<outcome, prev, info, pure_calls>>

\* open(appimage_path_obj, 'wb') truncates the file in place
SignEmbedOpen ==
    /\ pc = "embed_open"
    /\ appimage' = <<>>
    /\ pc' = "embed_data"
    /\ UNCHANGED <<appimage_exists, asc_exists, asc, backup_exists, backup,
                   op, locals,
                   result, pre, ops>>
    /\ UNCHANGED <<outcome, prev, info, pure_calls>>

\* f.write(original_data)
SignEmbedData ==
    /\ pc = "embed_data"
    /\ appimage' = appimage \o original_data
    /\ pc' = "embed_sep"
    /\ UNCHANGED <<appimage_exists, asc_exists, asc, backup_exists, backup,
                   op, locals,
                   result, pre, ops>>
    /\ UNCHANGED <<outcome, prev, info, pure_calls>>

\* SignEmbedSep that writes a Windows line ending
SignEmbedSep_crlf ==
    /\ pc = "embed_sep"
    /\ appimage' = appimage \o <<13, 10>>
    /\ pc' = "embed_sig"
    /\ UNCHANGED <<appimage_exists, asc_exists, asc, backup_exists, backup,
                   op, locals, result, pre, ops>>
    /\ UNCHANGED <<outcome, prev, info, pure_calls>>

\* f.write(b'\n')
SignEmbedSep ==
    /\ pc = "embed_sep"
    /\ appimage' = appimage \o <<10>>
    /\ pc' = "embed_sig"
    /\ UNCHANGED <<appimage_exists, asc_exists, asc, backup_exists, backup,
                   op, locals,
                   result, pre, ops>>
    /\ UNCHANGED <<outcome, prev, info, pure_calls>>

\* f.write(signature_text.encode('utf-8')), close, return True
SignEmbedSig ==
    /\ pc = "embed_sig"
    /\ appimage' = appimage \o Utf8Encode(signature_text)
    /\ outcome' = "embedded"
    /\ pc' = "done"
    /\ result' = "true"
    /\ UNCHANGED <<appimage_exists, asc_exists, asc, backup_exists, backup,
                   op, locals,
                   pre, ops>>
    /\ UNCHANGED <<prev, info, pure_calls>>

\* the open or a write raises: "except Exception" prints a warning and
\* goes on to restore
SignEmbedRaise ==
    /\ pc \in {"embed_open", "embed_data", "embed_sep", "embed_sig"}
    /\ pc' = "restore_open"
    /\ UNCHANGED <<files, op, locals, result, pre, ops>>
    /\ UNCHANGED <<outcome, prev, info, pure_calls>>

\* restore: open(appimage_path_obj, 'wb')
SignRestoreOpen ==
    /\ pc = "restore_open"
    /\ appimage' = <<>>
    /\ pc' = "restore_data"
    /\ UNCHANGED <<appimage_exists, asc_exists, asc, backup_exists, backup,
                   op, locals,
                   result, pre, ops>>
    /\ UNCHANGED <<outcome, prev, info, pure_calls>>

\* restore: f.write(original_data), then return True
SignRestoreData ==
    /\ pc = "restore_data"
    /\ appimage' = appimage \o original_data
    /\ outcome' = "restored"
    /\ pc' = "done"
    /\ result' = "true"
    /\ UNCHANGED <<appimage_exists, asc_exists, asc, backup_exists, backup,
                   op, locals,
                   pre, ops>>
    /\ UNCHANGED <<prev, info, pure_calls>>

\* SignCleanOpen with mode 'ab': the file is not truncated
SignCleanOpen_append ==
    /\ pc = "clean_open"
    /\ pc' = "clean_data"
    /\ UNCHANGED <<files, op, locals, result, pre, ops>>
    /\ UNCHANGED <<outcome, prev, info, pure_calls>>

\* no embedding: open(appimage_path_obj, 'wb')
SignCleanOpen ==
    /\ pc = "clean_open"
    /\ appimage' = <<>>
    /\ pc' = "clean_data"
    /\ UNCHANGED <<appimage_exists, asc_exists, asc, backup_exists, backup,
                   op, locals,
                   result, pre, ops>>
    /\ UNCHANGED <<outcome, prev, info, pure_calls>>

\* no embedding: f.write(original_data), then return True
SignCleanData ==
    /\ pc = "clean_data"
    /\ appimage' = appimage \o original_data
    /\ outcome' = "cleaned"
    /\ pc' = "done"
    /\ result' = "true"
    /\ UNCHANGED <<appimage_exists, asc_exists, asc, backup_exists, backup,
                   op, locals,
                   pre, ops>>
    /\ UNCHANGED <<prev, info, pure_calls>>

\* the restore or the clean write-back raises: the outer "except Exception"
\* returns False
SignOuterRaise ==
    /\ pc \in {"restore_open", "restore_data", "clean_open", "clean_data"}
    /\ pc' = "done"
    /\ result' = "false"
    /\ UNCHANGED <<files, op, locals, pre, ops>>
    /\ UNCHANGED <<outcome, prev, info, pure_calls>>

\* ------------------------------------- AppImageResigner.remove_signature

\* deletes <appimage>.asc when it is there (unlink_ok: the unlink does not
\* raise); the AppImage itself is only checked for existence
RemoveSignature(unlink_ok) ==
    /\ pc = "idle"
    /\ ops < MaxOps
    /\ ops' = ops + 1
    /\ outcome' = "none"
    /\ op' = "remove"
    /\ pre' = appimage
    /\ pc' = "done"
    /\ IF ~appimage_exists
       THEN /\ result' = "false"
            /\ UNCHANGED <<asc_exists, asc>>
       ELSE IF asc_exists /\ ~unlink_ok
       THEN /\ result' = "false"
            /\ UNCHANGED <<asc_exists, asc>>
       ELSE /\ result' = "true"
            /\ asc_exists' = FALSE
            /\ asc' = <<>>
    /\ UNCHANGED <<appimage_exists, appimage, backup_exists, backup, locals>>
    /\ UNCHANGED <<prev, info, pure_calls>>

\* ------------------------------------ embed_signature.py: embed_signature

\* existence checks, read, the replace prompt (answer), removal of the
\* embedded signature, text-mode read of the .asc file
ScriptStart(answer) ==
    /\ pc = "idle"
    /\ ops < MaxOps
    /\ ops' = ops + 1
    /\ outcome' = "none"
    /\ op' = "script"
    /\ pre' = appimage
    /\ IF ~appimage_exists \/ ~asc_exists
       THEN /\ pc' = "done"
            /\ result' = "false"
            /\ UNCHANGED <<appimage_data, signature_data>>
       ELSE IF Contains(appimage, BEGIN_MARKER) /\ answer # "j"
       THEN /\ pc' = "done"
            /\ result' = "false"
            /\ appimage_data' = appimage
            /\ UNCHANGED signature_data
       ELSE IF ~Utf8Valid(asc)
       THEN /\ pc' = "done"
            /\ result' = "exception"
            /\ appimage_data' = (IF Contains(appimage, BEGIN_MARKER)
                                 THEN embed_clean_data(appimage)
                                 ELSE appimage)
            /\ UNCHANGED signature_data
       ELSE /\ pc' = "script_backup"
            /\ result' = "none"
            /\ appimage_data' = (IF Contains(appimage, BEGIN_MARKER)
                                 THEN embed_clean_data(appimage)
                                 ELSE appimage)
            /\ signature_data' = UniversalNewlines(Utf8DecodeIgnore(asc))
    /\ UNCHANGED <<files, embed, original_data, signature_text,
                   data_before_sig, sig_data>>
    /\ UNCHANGED <<prev, info, pure_calls>>

\* "Create backup": only when <appimage>.backup does not exist yet
ScriptBackup ==
    /\ pc = "script_backup"
    /\ pc' = "script_open"
    /\ IF backup_exists
       THEN UNCHANGED <<backup_exists, backup>>
       ELSE /\ backup_exists' = TRUE
            /\ backup' = appimage_data
    /\ UNCHANGED <<appimage_exists, appimage, asc_exists, asc, op, locals,
                   result, pre, ops>>
    /\ UNCHANGED <<outcome, prev, info, pure_calls>>

\* open(appimage_path, 'wb') truncates the file in place
ScriptOpen ==
    /\ pc = "script_open"
    /\ appimage' = <<>>
    /\ pc' = "script_data"
    /\ UNCHANGED <<appimage_exists, asc_exists, asc, backup_exists, backup,
                   op, locals, result, pre, ops>>
    /\ UNCHANGED <<outcome, prev, info, pure_calls>>

\* f.write(appimage_data)
ScriptData ==
    /\ pc = "script_data"
    /\ appimage' = appimage \o appimage_data
    /\ pc' = "script_sep"
    /\ UNCHANGED <<appimage_exists, asc_exists, asc, backup_exists, backup,
                   op, locals, result, pre, ops>>
    /\ UNCHANGED <<outcome, prev, info, pure_calls>>

\* f.write(b'\n')
ScriptSep ==
    /\ pc = "script_sep"
    /\ appimage' = appimage \o <<10>>
    /\ pc' = "script_sig"
    /\ UNCHANGED <<appimage_exists, asc_exists, asc, backup_exists, backup,
                   op, locals, result, pre, ops>>
    /\ UNCHANGED <<outcome, prev, info, pure_calls>>

\* f.write(signature_data.encode('utf-8'))
ScriptSig ==
    /\ pc = "script_sig"
    /\ appimage' = appimage \o Utf8Encode(signature_data)
    /\ outcome' = "embedded"
    /\ pc' = "script_verify"
    /\ UNCHANGED <<appimage_exists, asc_exists, asc, backup_exists, backup,
                   op, locals, result, pre, ops>>
    /\ UNCHANGED <<prev, info, pure_calls>>

\* "Verify": re-read the file and look for the begin marker
ScriptVerify ==
    /\ pc = "script_verify"
    /\ pc' = "done"
    /\ result' = IF Contains(appimage, BEGIN_MARKER) THEN "true" ELSE "false"
    /\ UNCHANGED <<files, op, locals, pre, ops>>
    /\ UNCHANGED <<outcome, prev, info, pure_calls>>

\* a write raises: nothing catches it, the script ends with a traceback
ScriptRaise ==
    /\ pc \in {"script_backup", "script_open", "script_data", "script_sep",
               "script_sig", "script_verify"}
    /\ pc' = "done"
    /\ result' = "exception"
    /\ UNCHANGED <<files, op, locals, pre, ops>>
    /\ UNCHANGED <<outcome, prev, info, pure_calls>>

\* --------------------------- AppImageVerifier.extract_embedded_signature

\* reads the file and splits it into the signed data and the signature
ExtractEmbeddedSignature ==
    /\ pc = "idle"
    /\ ops < MaxOps
    /\ ops' = ops + 1
    /\ outcome' = "none"
    /\ op' = "extract"
    /\ pre' = appimage
    /\ pc' = "done"
    /\ IF ~appimage_exists
       THEN /\ result' = "none"
            /\ UNCHANGED <<data_before_sig, sig_data>>
       ELSE IF Contains(appimage, BEGIN_MARKER)
       THEN /\ result' = "has_signature"
            /\ data_before_sig' = extract_data_before_sig(appimage)
            /\ sig_data' = extract_sig_data(appimage)
       ELSE /\ result' = "no_signature"
            /\ UNCHANGED <<data_before_sig, sig_data>>
    /\ UNCHANGED <<files, embed, original_data, signature_text,
                   appimage_data, signature_data>>
    /\ UNCHANGED <<prev, info, pure_calls>>

\* ------------------------------------- AppImageVerifier.get_signature_info

\* reads the file, or the .asc file next to it, and parses what it finds
GetSignatureInfo ==
    /\ pc = "idle"
    /\ ops < MaxOps
    /\ ops' = ops + 1
    /\ outcome' = "none"
    /\ op' = "inspect"
    /\ pre' = appimage
    /\ pc' = "done"
    /\ result' = "info"
    /\ info' = get_signature_info(appimage_exists, appimage, asc_exists, asc)
    /\ UNCHANGED <<files, locals, prev, pure_calls>>

\* the process is interrupted (killed, power loss) while it runs: nothing
\* more is written
Interrupt ==
    /\ pc \notin {"idle", "done", "killed"}
    /\ pc' = "killed"
    /\ UNCHANGED <<files, op, locals, result, pre, ops>>
    /\ UNCHANGED <<outcome, prev, info, pure_calls>>

\* the text the finished operation wrote after the separator
EmbeddedText == IF op = "sign" THEN signature_text ELSE signature_data

\* what is remembered of the finished operation: whether it embedded an armor
\* block or wrote the clean data back, the bytes it started from, and the
\* bytes sign_appimage handed to gpg
Summary ==
    LET kind == IF outcome = "embedded" /\ MatchAt(EmbeddedText, BEGIN_MARKER, 0)
                THEN "embed"
                ELSE IF outcome = "cleaned" THEN "remove" ELSE "other"
    IN  [kind |-> kind,
         op |-> IF kind = "other" THEN "none" ELSE op,
         pre |-> IF kind = "other" THEN <<>> ELSE pre,
         signed |-> IF kind = "embed" /\ op = "sign" THEN original_data ELSE <<>>]

\* the call has returned; its locals are gone
Return ==
    /\ pc = "done"
    /\ pc' = "idle"
    /\ op' = "none"
    /\ embed' = FALSE
    /\ original_data' = <<>>
    /\ signature_text' = <<>>
    /\ appimage_data' = <<>>
    /\ signature_data' = <<>>
    /\ data_before_sig' = <<>>
    /\ sig_data' = <<>>
    /\ result' = "none"
    /\ outcome' = "none"
    /\ pre' = <<>>
    /\ prev' = Summary
    /\ info' = NoInfo
    /\ UNCHANGED <<files, ops, pure_calls>>

Next ==
    \/ \E e \in BOOLEAN : SignStart(e)
    \/ \E text \in SignedDataTexts : SignCreated(text)
    \/ SignFailed
    \/ SignEmbedOpen
    \/ SignEmbedData
    \/ SignEmbedSep
    \/ SignEmbedSig
    \/ SignEmbedRaise
    \/ SignRestoreOpen
    \/ SignRestoreData
    \/ SignCleanOpen
    \/ SignCleanData
    \/ SignOuterRaise
    \/ \E unlink_ok \in BOOLEAN : RemoveSignature(unlink_ok)
    \/ \E answer \in {"j", "n"} : ScriptStart(answer)
    \/ ScriptBackup
    \/ ScriptOpen
    \/ ScriptData
    \/ ScriptSep
    \/ ScriptSig
    \/ ScriptVerify
    \/ ScriptRaise
    \/ ExtractEmbeddedSignature
    \/ GetSignatureInfo
    \/ Interrupt
    \/ Return

Spec == Init /\ [][Next]_vars

\* ------------------------------------------------- the trim loops alone

\* longest buffer a trim loop is applied to
MaxBufLen == 4

\* the four separator bytes and an ordinary one
TrimBytes == {10, 13, 32, 9, 120}

RECURSIVE TrimBuffers(_)
TrimBuffers(n) ==
    IF n = 0 THEN {<<>>}
    ELSE LET shorter == TrimBuffers(n - 1)
         IN  shorter \cup {c \o <<b>> : c \in shorter, b \in TrimBytes}

TrimInit ==
    /\ appimage_exists = FALSE
    /\ appimage = <<>>
    /\ asc_exists = FALSE
    /\ asc = <<>>
    /\ backup_exists = FALSE
    /\ backup = <<>>
    /\ appimage_data = <<>>
    /\ signature_data = <<>>
    /\ data_before_sig = <<>>
    /\ sig_data = <<>>
    /\ op = "none"
    /\ pc = "idle"
    /\ embed = FALSE
    /\ original_data = <<>>
    /\ signature_text = <<>>
    /\ result = "none"
    /\ outcome = "none"
    /\ pre = <<>>
    /\ prev = NoPrev
    /\ ops = 0
    /\ info = NoInfo
    /\ fn = "none"
    /\ buffer \in TrimBuffers(MaxBufLen)
    /\ armor_begin \in 0..Len(buffer)
    /\ boundary = 0
    /\ WebQuiet
    /\ armor = UnixSignature
    /\ decoded = <<>>
    /\ metadata = EmptyMetadata
    /\ norm_input = <<>>
    /\ normalized = <<>>


not_trim == <<files, op, pc, locals, result, outcome, pre, prev, ops, info,
              parse_call, norm_call, web>>

\* sign_appimage's loop, started at sig_start = armor_begin
TrimSign ==
    /\ fn = "none"
    /\ fn' = "sign"
    /\ boundary' = sign_data_end(buffer, armor_begin)
    /\ UNCHANGED <<buffer, armor_begin, not_trim>>

\* extract_embedded_signature's loop
TrimExtract ==
    /\ fn = "none"
    /\ fn' = "extract"
    /\ boundary' = extract_data_end(buffer, armor_begin)
    /\ UNCHANGED <<buffer, armor_begin, not_trim>>

\* embed_signature.py's loop
TrimScript ==
    /\ fn = "none"
    /\ fn' = "script"
    /\ boundary' = embed_sig_start(buffer, armor_begin)
    /\ UNCHANGED <<buffer, armor_begin, not_trim>>

TrimNext == TrimSign \/ TrimExtract \/ TrimScript

TrimSpec == TrimInit /\ [][TrimNext]_vars

\* --------------------------------------------------- the parser alone

\* no operation, no trim call, nothing next to the AppImage: the state the
\* pure functions run in
Quiet ==
    /\ asc_exists = FALSE
    /\ asc = <<>>
    /\ backup_exists = FALSE
    /\ backup = <<>>
    /\ appimage_data = <<>>
    /\ signature_data = <<>>
    /\ data_before_sig = <<>>
    /\ sig_data = <<>>
    /\ op = "none"
    /\ pc = "idle"
    /\ embed = FALSE
    /\ original_data = <<>>
    /\ result = "none"
    /\ outcome = "none"
    /\ pre = <<>>
    /\ prev = NoPrev
    /\ ops = 0
    /\ info = NoInfo
    /\ fn = "none"
    /\ buffer = <<>>
    /\ armor_begin = 0
    /\ boundary = 0
    /\ WebQuiet

\* the payload of the AppImage the signature is embedded in
Payload == <<127, 69, 76, 70>>

\* an AppImage that carries the armored text a after the payload and the
\* separator
Container(a) == Payload \o <<10>> \o Utf8Encode(Armor(a))

\* signature_text is the armored text, appimage the file that carries it
ParseInit ==
    /\ Quiet
    /\ armor \in Signatures
    /\ signature_text = Armor(armor)
    /\ appimage_exists = TRUE
    /\ appimage = Container(armor)
    /\ decoded = <<>>
    /\ metadata = EmptyMetadata
    /\ norm_input = <<>>
    /\ normalized = <<>>

not_parse == <<files, op, pc, embed, original_data, signature_text,
               appimage_data, signature_data, result, outcome, pre, prev,
               ops, buffer, armor_begin, boundary, armor, norm_call, web>>

\* parse_signature_metadata(signature_data) on the armored text
ParseMetadata ==
    /\ fn = "none"
    /\ fn' = "parse"
    /\ sig_data' = signature_text
    /\ decoded' = b64decode(parse_base64_data(signature_text)).bytes
    /\ metadata' = parse_signature_metadata(signature_text)
    /\ UNCHANGED <<data_before_sig, info, not_parse>>

\* get_signature_info on the container: what it returns and, where it found
\* the begin marker, the text it cut out of the file and parsed
ParseInspect ==
    /\ fn = "none"
    /\ fn' = "inspect"
    /\ info' = get_signature_info(appimage_exists, appimage, asc_exists, asc)
    /\ IF Contains(appimage, BEGIN_MARKER)
       THEN \E cut \in {inspect_sig_data(appimage)} :
                /\ sig_data' = cut
                /\ decoded' = b64decode(parse_base64_data(cut)).bytes
                /\ metadata' = info'.metadata[1]
       ELSE UNCHANGED <<sig_data, decoded, metadata>>
    /\ UNCHANGED <<data_before_sig, not_parse>>

\* extract_embedded_signature's split of the container, where it found the
\* begin marker: the signed bytes and the signature text it hands to gpg
ParseExtract ==
    /\ fn = "none"
    /\ fn' = "extract"
    /\ IF Contains(appimage, BEGIN_MARKER)
       THEN /\ data_before_sig' = extract_data_before_sig(appimage)
            /\ sig_data' = extract_sig_data(appimage)
       ELSE UNCHANGED <<data_before_sig, sig_data>>
    /\ UNCHANGED <<decoded, metadata, info, not_parse>>

ParseNext == ParseMetadata \/ ParseInspect \/ ParseExtract

ParseSpec == ParseInit /\ [][ParseNext]_vars

\* ------------------------------------ the parser on the length encodings

LengthInit ==
    /\ Quiet
    /\ armor \in LengthSignatures
    /\ signature_text = Armor(armor)
    /\ appimage_exists = TRUE
    /\ appimage = Container(armor)
    /\ decoded = <<>>
    /\ metadata = EmptyMetadata
    /\ norm_input = <<>>
    /\ normalized = <<>>

LengthSpec == LengthInit /\ [][ParseNext]_vars

\* ------------------------------------------- the normalizations alone

\* longest text a normalization is applied to
MaxTextLen == 5

\* a line feed, a carriage return and an ordinary character
RECURSIVE Texts(_)
Texts(n) ==
    IF n = 0 THEN {<<>>}
    ELSE LET shorter == Texts(n - 1)
         IN  shorter \cup {t \o <<c>> : t \in shorter, c \in {10, 13, 120}}

NormInit ==
    /\ Quiet
    /\ appimage_exists = FALSE
    /\ appimage = <<>>
    /\ signature_text = <<>>
    /\ armor = UnixSignature
    /\ decoded = <<>>
    /\ metadata = EmptyMetadata
    /\ norm_input \in Texts(MaxTextLen)
    /\ normalized = <<>>

not_norm == <<files, op, pc, locals, result, outcome, pre, prev, info,
              buffer, armor_begin, boundary, parse_call, web>>

\* sign_appimage's normalization, applied to the text and then to its own
\* output
NormSign ==
    /\ fn \in {"none", "sign"}
    /\ ops < 2
    /\ fn' = "sign"
    /\ ops' = ops + 1
    /\ \E input \in {IF fn = "none" THEN norm_input ELSE normalized} :
        /\ norm_input' = input
        /\ normalized' = sign_normalize(input)
    /\ UNCHANGED not_norm

\* extract_embedded_signature's normalization, likewise
NormExtract ==
    /\ fn \in {"none", "extract"}
    /\ ops < 2
    /\ fn' = "extract"
    /\ ops' = ops + 1
    /\ \E input \in {IF fn = "none" THEN norm_input ELSE normalized} :
        /\ norm_input' = input
        /\ normalized' = extract_normalize(input)
    /\ UNCHANGED not_norm

NormNext == NormSign \/ NormExtract

NormSpec == NormInit /\ [][NormNext]_vars

\* ------------------------------------------------- the claims' vocabulary

\* the bytes the design calls separator whitespace
SeparatorBytes == {10, 13, 32, 9}

EndsInSeparator(data) ==
    data # <<>> /\ data[Len(data)] \in SeparatorBytes

\* every offset at which the begin marker occurs
MarkerOffsets(data) ==
    {i \in 0..(Len(data) - Len(BEGIN_MARKER)) : MatchAt(data, BEGIN_MARKER, i)}

CountMarkers(data) == Cardinality(MarkerOffsets(data))

\* ArmorLocator: the last occurrence
LastMarker(data) ==
    CHOOSE i \in MarkerOffsets(data) : \A j \in MarkerOffsets(data) : j <= i

\* BoundaryTrimmer as the design states it: the offset b <= begin with only
\* separator bytes in [b, begin) and none right before b
SpecBoundary(data, begin) ==
    CHOOSE b \in 0..begin :
        /\ \A i \in (b + 1)..begin : data[i] \in SeparatorBytes
        /\ b = 0 \/ data[b] \notin SeparatorBytes

\* SignatureEmbedder.remove as the design states it
CleanPayload(data) ==
    IF MarkerOffsets(data) = {} THEN data
    ELSE Prefix(data, SpecBoundary(data, LastMarker(data)))

\* the operation just finished wrote payload, separator and an armor block
EmbeddedArmor ==
    /\ pc = "done"
    /\ outcome = "embedded"
    /\ MatchAt(EmbeddedText, BEGIN_MARKER, 0)

\* the operation just finished wrote the clean data back (a removal), right
\* after an operation that embedded an armor block
EmbedRemoved ==
    /\ pc = "done"
    /\ outcome = "cleaned"
    /\ prev.kind = "embed"

\* two removals in a row
RemovedTwice ==
    /\ pc = "done"
    /\ outcome = "cleaned"
    /\ prev.kind = "remove"

\* ---------------------------------------------------------------- claims

C2_EmbedExtractAgree ==
    (pc = "done" /\ op = "extract" /\ prev.kind = "embed" /\ prev.op = "sign")
        => (result = "has_signature" /\ data_before_sig = prev.signed)

\* C3, as stated: removing twice gives the same bytes as removing once, for
\* EVERY container.
C3_IdempotentAnyContainer ==
    RemovedTwice => appimage = pre

\* C3, amended: removing twice gives the same bytes as removing once for a
\* container that holds at most one begin marker.
C3_Idempotent ==
    (RemovedTwice /\ CountMarkers(prev.pre) <= 1) => appimage = pre

C3_Witness ==
    /\ RemovedTwice
    /\ CountMarkers(prev.pre) = 1
    /\ pre # prev.pre
    /\ appimage = pre

\* C4, as stated: after an embed into ANY container the file holds at most
\* one begin marker.
C4_AtMostOneAnyContainer ==
    EmbeddedArmor => CountMarkers(appimage) <= 1

\* C4, amended: after an embed into a container that held at most one begin
\* marker, the file holds at most one begin marker (so also after any number
\* of further embeds).
C4_AtMostOne ==
    (EmbeddedArmor /\ CountMarkers(pre) <= 1) => CountMarkers(appimage) <= 1

C4_Witness ==
    /\ EmbeddedArmor
    /\ prev.kind = "embed"
    /\ CountMarkers(pre) = 1
    /\ CountMarkers(appimage) = 1
    /\ appimage # pre

\* C5: for a container that holds an armor block, the bytes below the trimmed
\* boundary are the same after a re-embed and after a removal.
C5_PayloadPreserved ==
    (pc = "done" /\ outcome \in {"embedded", "cleaned"} /\ MarkerOffsets(pre) # {})
        => LET b == SpecBoundary(pre, LastMarker(pre))
           IN  /\ Len(appimage) >= b
               /\ Prefix(appimage, b) = Prefix(pre, b)

C5_Witness ==
    /\ pc = "done"
    /\ outcome = "embedded"
    /\ MarkerOffsets(pre) # {}
    /\ SpecBoundary(pre, LastMarker(pre)) > 0
    /\ appimage # pre

\* C6: each trim loop returns b with 0 <= b <= begin, only separator bytes in
\* [b, begin) and no separator byte right before b; so whatever mixture of
\* separator bytes lies between a payload that does not end in one and the
\* marker, b is the payload's length.
C6_Boundary ==
    fn # "none" =>
        /\ boundary \in 0..armor_begin
        /\ \A i \in (boundary + 1)..armor_begin : buffer[i] \in SeparatorBytes
        /\ boundary = 0 \/ buffer[boundary] \notin SeparatorBytes
        /\ \A p \in 0..armor_begin :
              (/\ p = 0 \/ buffer[p] \notin SeparatorBytes
               /\ \A i \in (p + 1)..armor_begin : buffer[i] \in SeparatorBytes)
                  => boundary = p

C6_Witness ==
    /\ fn = "extract"
    /\ buffer = <<120, 13, 10, 9>>
    /\ armor_begin = 4
    /\ boundary = 1

\* C7: an embed interrupted between opening the file for writing and the end
\* of the write leaves either the complete old content or the complete
\* payload + \n + armor on disk.
C7_NoHalfWrittenFile ==
    (pc = "killed" /\ ((op = "sign" /\ embed) \/ op = "script"))
        => \/ appimage = pre
           \/ op = "sign" /\ appimage =
                 original_data \o <<10>> \o Utf8Encode(signature_text)
           \/ op = "script" /\ appimage =
                 appimage_data \o <<10>> \o Utf8Encode(signature_data)

\* C8: an embed that fails after the write began reports failure and leaves
\* the file with the bytes it held before the embed started.
C8_RollbackOnFailure ==
    (/\ pc = "done"
     /\ \/ op = "sign" /\ outcome = "restored"
        \/ op = "script" /\ outcome = "embedded" /\ result = "false")
        => (result = "false" /\ appimage = pre)

\* C9: in a container produced by embed, exactly one 0x0A byte lies between
\* the clean payload and the begin marker.
C9_Separator ==
    EmbeddedArmor =>
        LET clean == CleanPayload(pre)
            begin == LastMarker(appimage)
        IN  /\ begin = Len(clean) + 1
            /\ Prefix(appimage, Len(clean)) = clean
            /\ appimage[begin] = 10

C9_Witness ==
    /\ EmbeddedArmor
    /\ MarkerOffsets(pre) # {}
    /\ LastMarker(pre) - SpecBoundary(pre, LastMarker(pre)) = 3
    /\ SpecBoundary(pre, LastMarker(pre)) > 0

\* C10: a removal on a container without a begin marker leaves every byte as
\* it was, trailing whitespace included, and reports success (the one False
\* it can return is a failed unlink of the .asc file).
C10_RemoveNoSignature ==
    (/\ pc = "done"
     /\ appimage_exists
     /\ MarkerOffsets(pre) = {}
     /\ op = "remove" \/ outcome = "cleaned")
        => /\ appimage = pre
           /\ result = "true" \/ (op = "remove" /\ asc_exists)

C10_Witness ==
    /\ pc = "done"
    /\ outcome = "cleaned"
    /\ MarkerOffsets(pre) = {}
    /\ EndsInSeparator(pre)
    /\ result = "true"
    /\ appimage = pre

\* kept is what a path keeps of data when it takes the armor block to start
\* at offset begin: the bytes before begin, less separator bytes at their end
KeptBefore(kept, data, begin) ==
    /\ Len(kept) <= begin
    /\ kept = Prefix(data, Len(kept))
    /\ \A i \in (Len(kept) + 1)..begin : data[i] \in SeparatorBytes

\* C11: when the file holds the begin marker more than once, sign_appimage,
\* embed_signature.py, extract_embedded_signature and get_signature_info all
\* take the armor block to start at the LAST occurrence: what the embed paths
\* and the extract path keep as payload reaches up to the last marker (every
\* earlier marker stays inside it), and what extract and inspect take as the
\* signature is the file from the last marker on.
C11_LastOccurrence ==
    CountMarkers(pre) >= 2 =>
        LET begin == LastMarker(pre)
            block == Utf8DecodeIgnore(Suffix(pre, begin))
        IN  /\ (op = "sign" /\ pc # "idle") =>
                    KeptBefore(original_data, pre, begin)
            /\ (op = "script" /\ pc # "idle"
                    /\ ~(pc = "done" /\ result = "false")) =>
                    KeptBefore(appimage_data, pre, begin)
            /\ (op = "extract" /\ pc = "done") =>
                    /\ result = "has_signature"
                    /\ KeptBefore(data_before_sig, pre, begin)
                    /\ sig_data = extract_normalize(block)
            /\ (op = "inspect" /\ pc = "done") =>
                    /\ info.has_signature
                    /\ info.type = "embedded"
                    /\ info.size = Len(block)
                    /\ info.signature_data = signature_preview(block)

\* an inspection of a file whose payload holds the marker text and whose
\* appended armor block holds the second marker
C11_Witness ==
    /\ op = "inspect"
    /\ pc = "done"
    /\ CountMarkers(pre) = 2
    /\ MatchAt(pre, BEGIN_MARKER, 0)
    /\ info.size < Len(pre) - Len(BEGIN_MARKER)

\* the last begin marker of data has no end marker after it
BeginWithoutEnd(data) ==
    /\ MarkerOffsets(data) # {}
    /\ ~Contains(Suffix(data, LastMarker(data)), END_MARKER)

\* C12: for a file whose begin marker has no end marker after it, inspection
\* and extraction report an error: get_signature_info answers neither
\* 'no signature' nor a signature whose metadata carry no error, and
\* extract_embedded_signature answers neither a signature nor 'no signature'.
C12_BeginWithoutEnd ==
    (pc = "done" /\ BeginWithoutEnd(pre)) =>
        /\ op = "inspect" =>
              IF info.has_signature
              THEN info.metadata[1].parse_error # None
              ELSE info.error \notin {"none", "No signature found"}
        /\ op = "extract" => result \notin {"has_signature", "no_signature"}

\* C13: parse_signature_metadata, given an armored signature of which the
\* text or the packet inside ends early (every proper prefix of the text; a
\* packet whose length octets, hashed region length or subpacket length claim
\* more octets than are there), returns an error result, never metadata
\* without one.
C13_TruncationSafety ==
    (fn = "parse" /\ ~IsWhole(armor)) => metadata.parse_error # None

\* the text '0123456789ABCDEF'
KnownKeyId ==
    <<48, 49, 50, 51, 52, 53, 54, 55, 56, 57, 65, 66, 67, 68, 69, 70>>

\* C14: for a whole version 4 signature packet whose hashed subpackets hold
\* the creation time 1700000000 (type 2) and the issuer 01 23 45 67 89 AB CD
\* EF (type 16), in either order and after a subpacket of another type,
\* parse_signature_metadata returns version 4, timestamp 1700000000, key ID
\* '0123456789ABCDEF', and the signature type, public-key algorithm ID and
\* hash algorithm ID of the three octets after the version, with no error.
C14_KnownVector ==
    (fn = "parse" /\ IsWhole(armor) /\ armor.tag = 2 /\ armor.version = 4) =>
        /\ metadata.raw_available
        /\ metadata.parse_error = None
        /\ metadata.version = Some(4)
        /\ metadata.timestamp = Some(1700000000)
        /\ metadata.key_id = Some(KnownKeyId)
        /\ metadata.signature_type = Some(armor.sig_type)
        /\ metadata.algorithm_id = Some(armor.pub_key_algo)
        /\ metadata.hash_algorithm_id = Some(armor.hash_algo)

\* the vector with the key flags subpacket first, in a new-format packet
C14_Witness ==
    /\ fn = "parse"
    /\ IsWhole(armor)
    /\ armor.tag = 2
    /\ armor.version = 4
    /\ armor.header = "new1"
    /\ armor.layout = "flags_time_issuer"
    /\ metadata.key_id = Some(KnownKeyId)
    /\ Len(decoded) = Len(Packet(armor))

\* no field of the signature packet is reported
NoSignatureMetadata(m) ==
    /\ m.version = None
    /\ m.signature_type = None
    /\ m.algorithm = None
    /\ m.algorithm_id = None
    /\ m.hash_algorithm = None
    /\ m.hash_algorithm_id = None
    /\ m.timestamp = None
    /\ m.timestamp_readable = None
    /\ m.key_id = None

\* C15: for an armor body whose first packet has a tag other than 2,
\* parse_signature_metadata returns an error result and no signature
\* metadata.
C15_NotASignature ==
    (fn = "parse" /\ IsWhole(armor) /\ armor.tag # 2) =>
        /\ metadata.parse_error # None
        /\ NoSignatureMetadata(metadata)

\* C16: for a signature packet whose version octet is not 3, 4 or 5,
\* parse_signature_metadata returns an error result that carries the version,
\* not a record without an error.
C16_UnsupportedVersion ==
    (fn = "parse" /\ IsWhole(armor) /\ armor.tag = 2
        /\ armor.version \notin {3, 4, 5}) =>
        /\ metadata.parse_error # None
        /\ metadata.version = Some(armor.version)

\* C17: what parse_signature_metadata decodes is exactly the base64 lines
\* between the BEGIN line and the END line, the line that starts with '='
\* left out: for an armored text that is whole, the decoded octets are the
\* octets that were armored.  And a body that base64.b64decode rejects gives
\* the 'Base64 decode error' result, with nothing parsed, never an exception
\* that leaves the function.
C17_ArmorBody ==
    fn \in {"parse", "inspect"} =>
        /\ armor.keep = Len(FullArmor(armor)) =>
              decoded = Prefix(Packet(armor), armor.packet_keep)
        /\ b64decode(parse_base64_data(sig_data)).raised =>
              /\ metadata.parse_error = Some("Base64 decode error")
              /\ ~metadata.raw_available
              /\ NoSignatureMetadata(metadata)

\* a body of two lines, followed by the CRC line
C17_Witness ==
    /\ fn = "parse"
    /\ IsWhole(armor)
    /\ armor.crc
    /\ Len(B64Encode(Packet(armor))) > 64
    /\ decoded = Packet(armor)
    /\ metadata.raw_available

\* a text cut inside its body, which b64decode rejects
C17_WitnessRejected ==
    /\ fn = "parse"
    /\ armor.keep < Len(FullArmor(armor))
    /\ Contains(sig_data, BEGIN_MARKER)
    /\ metadata.parse_error = Some("Base64 decode error")

\* the same signature, cut at the same octet of its packet, written with \n
LfTwin(p) == WithPacketKeep([p EXCEPT !.nl = <<10>>], p.packet_keep)

\* C18: for an armored signature written with \r\n line endings throughout,
\* parse_signature_metadata and get_signature_info return the metadata they
\* return for the same signature written with \n, and
\* extract_embedded_signature hands on the signed bytes and the signature text
\* of the \n container, so whatever is parsed from that text is equal too.
C18_CrossPlatform ==
    (armor.nl = <<13, 10>> /\ armor.keep = Len(FullArmor(armor))) =>
        LET twin == LfTwin(armor)
        IN  /\ fn = "parse" =>
                  metadata = parse_signature_metadata(Armor(twin))
            /\ fn = "inspect" =>
                  /\ info.metadata =
                        get_signature_info(TRUE, Container(twin),
                                           FALSE, <<>>).metadata
                  /\ metadata = info.metadata[1]
            /\ fn = "extract" =>
                  /\ data_before_sig =
                        extract_data_before_sig(Container(twin))
                  /\ sig_data = extract_sig_data(Container(twin))
                  /\ sig_data = Armor(twin)

\* a whole \r\n signature inspected, its fields read
C18_Witness ==
    /\ fn = "inspect"
    /\ IsWhole(armor)
    /\ armor.nl = <<13, 10>>
    /\ armor.tag = 2
    /\ armor.version = 4
    /\ metadata.algorithm_id = Some(armor.pub_key_algo)
    /\ metadata.key_id = Some(KnownKeyId)
    /\ Contains(appimage, <<13, 10>>)

\* the characters of a text
Chars(text) == {text[i] : i \in 1..Len(text)}

\* C19: the normalization of sign_appimage and of extract_embedded_signature
\* (replace \r\n, then \r, by \n) gives a text without \r, gives back a text
\* that has no \r as it was, and applied to its own output changes nothing.
C19_Canonicalization ==
    (fn \in {"sign", "extract"} /\ ops >= 1) =>
        /\ 13 \notin Chars(normalized)
        /\ 13 \notin Chars(norm_input) => normalized = norm_input
        /\ ops = 2 => normalized = norm_input
        /\ sign_normalize(normalized) = normalized
        /\ extract_normalize(normalized) = normalized

\* \r\n and a lone \r in one text, both replaced
C19_Witness ==
    /\ fn = "sign"
    /\ ops = 1
    /\ norm_input = <<120, 13, 10, 13, 120>>
    /\ normalized = <<120, 10, 10, 120>>

\* the second application, to a text with line feeds
C19_WitnessTwice ==
    /\ fn = "extract"
    /\ ops = 2
    /\ norm_input = <<10, 10, 120, 10>>
    /\ normalized = norm_input

\* get_signature_info has just returned, and the operation before it embedded
\* an armor block
EmbedInspected ==
    /\ op = "inspect"
    /\ pc = "done"
    /\ prev.kind = "embed"

EndsWith(data, tail) ==
    Len(tail) <= Len(data) /\ MatchAt(data, tail, Len(data) - Len(tail))

\* the armored signatures an embed is given: as gpg prints them, and with the
\* line endings sign_appimage gives them
GoodSignatures ==
    {UnixSignature, WindowsSignature, LfTwin(WindowsSignature)}

\* C20: when a whole armored signature has been embedded and the file is
\* inspected next, get_signature_info reports a signature, of type
\* 'embedded', and the algorithm_id and hash_algorithm_id of its metadata
\* are the two octets of that signature packet.
C20_EmbedThenInspect ==
    \A s \in GoodSignatures :
        (EmbedInspected /\ EndsWith(appimage, Utf8Encode(Armor(s)))) =>
            /\ info.has_signature
            /\ info.type = "embedded"
            /\ info.error = "none"
            /\ info.metadata # None
            /\ info.metadata[1].algorithm_id = Some(s.pub_key_algo)
            /\ info.metadata[1].hash_algorithm_id = Some(s.hash_algo)

\* sign_appimage embedded the EdDSA/SHA-512 signature after a payload that
\* is not empty; the .asc file it wrote is there as well
C20_Witness ==
    /\ EmbedInspected
    /\ prev.op = "sign"
    /\ prev.pre # <<>>
    /\ asc_exists
    /\ EndsWith(appimage, Utf8Encode(Armor(LfTwin(WindowsSignature))))
    /\ info.type = "embedded"
    /\ info.metadata[1].algorithm_id = Some(22)
    /\ info.metadata[1].hash_algorithm_id = Some(10)

\* get_signature_info has just returned for a file that is there and holds
\* no begin marker
InspectedNoMarker ==
    /\ op = "inspect"
    /\ pc = "done"
    /\ appimage_exists
    /\ MarkerOffsets(pre) = {}

InspectedMarker ==
    /\ fn = "inspect"
    /\ Contains(appimage, BEGIN_MARKER)

\* what follows the begin marker cannot be parsed as a signature packet: the
\* base64 is rejected, the packet ends early, or its tag or version is wrong
ParseFails ==
    \/ b64decode(parse_base64_data(sig_data)).raised
    \/ /\ armor.keep = Len(FullArmor(armor))
       /\ \/ armor.packet_keep < Len(Packet(armor))
          \/ armor.tag # 2
          \/ armor.version \notin {3, 4, 5}

\* the half of C22 that is about the inspection itself: with a begin marker in
\* the file get_signature_info answers has_signature True, type 'embedded',
\* with the preview of the text it cut out, whatever that text is.
InspectionNeverAborts ==
    InspectedMarker =>
        /\ info.has_signature
        /\ info.type = "embedded"
        /\ info.error = "none"
        /\ info.signature_data = signature_preview(sig_data)
        /\ info.size = Len(sig_data)
        /\ info.metadata # None

\* C22: for every container with a begin marker, whatever follows it,
\* get_signature_info answers has_signature True, type 'embedded', with a
\* preview; and where the text cannot be parsed as a signature packet, no
\* packet field is reported and a diagnostic string is recorded.
C22_InspectionDegrades ==
    InspectedMarker =>
        /\ info.has_signature
        /\ info.type = "embedded"
        /\ info.signature_data = signature_preview(sig_data)
        /\ ParseFails =>
              /\ NoSignatureMetadata(info.metadata[1])
              /\ info.metadata[1].parse_error # None

\* sign_appimage has returned False
SignReturnedFalse ==
    /\ op = "sign"
    /\ pc = "done"
    /\ result = "false"

\* the call wrote the signature it created to <appimage>.asc
AscWritten ==
    /\ signature_text # <<>>
    /\ asc_exists
    /\ asc = Utf8Encode(signature_text)

\* the part of C27 that is about the returns before anything is written: a
\* missing file, and a signer that creates no signature or raises
FailedBeforeAnyWrite ==
    (SignReturnedFalse /\ signature_text = <<>>) =>
        /\ appimage = pre
        /\ ~AscWritten

\* C27: whenever sign_appimage returns False, the AppImage file holds the
\* bytes it held before the call and no .asc file has been written.
C27_FailedSignUntouched ==
    SignReturnedFalse =>
        /\ appimage = pre
        /\ ~AscWritten

\* the octets a packet header takes: the tag and the length octets
HeaderOctets(header) ==
    CASE header \in {"new1", "old1"} -> 2
      [] header \in {"new2", "old2"} -> 3
      [] header = "old4" -> 5
      [] header = "new5" -> 6

\* layouts whose subpacket lengths take one, five and two octets, each with
\* the creation time and the issuer of the known vector
LengthFormLayouts ==
    {"time_issuer", "five_octet_lengths", "notation_time_issuer"}

\* the signature packet's fields are read where they are
FieldsRead ==
    /\ metadata.version = Some(armor.version)
    /\ metadata.signature_type = Some(armor.sig_type)
    /\ metadata.algorithm_id = Some(armor.pub_key_algo)
    /\ metadata.hash_algorithm_id = Some(armor.hash_algo)
    /\ metadata.timestamp = Some(1700000000)
    /\ metadata.key_id = Some(KnownKeyId)

\* the packet is cut inside the five octets of its first subpacket length
CutInsideLongLength ==
    /\ armor.layout = "five_octet_lengths"
    /\ armor.header = "new1"
    /\ armor.packet_keep \in 9..12

\* the part of C24 that holds: behind a packet length of one or two octets
\* (and the old-format lengths) every subpacket length form is decoded and
\* the subpacket type is read right after it.
ShortPacketLengthDecoding ==
    (fn = "parse" /\ IsWhole(armor) /\ armor.header # "new5"
        /\ armor.layout \in LengthFormLayouts) =>
        /\ packet_header(decoded).idx = HeaderOctets(armor.header)
        /\ packet_header(decoded).packet_length =
              Some(Len(SignatureBody(armor)))
        /\ FieldsRead

\* C24: new-format packet lengths and subpacket lengths are decoded by one
\* rule (one octet below 192, two octets from 192 to 223, five octets for
\* 255), the version octet and the subpacket type are read from the octet
\* right after the length octets, and a five-octet length of which octets
\* are missing gives an error result.
C24_LengthDecoding ==
    fn = "parse" =>
        /\ (IsWhole(armor) /\ armor.header \in {"new1", "new2", "new5"}) =>
              /\ packet_header(decoded).idx = HeaderOctets(armor.header)
              /\ packet_header(decoded).packet_length =
                    Some(Len(SignatureBody(armor)))
              /\ metadata.version = Some(armor.version)
        /\ (IsWhole(armor) /\ armor.layout \in LengthFormLayouts) =>
              FieldsRead
        /\ CutInsideLongLength => metadata.parse_error # None

\* parse_signature_metadata walked the hashed subpackets of a whole packet
HashedRegionWalked ==
    /\ fn = "parse"
    /\ IsWhole(armor)
    /\ metadata.version \in {Some(4), Some(5)}

\* C25: in the hashed region of a version 4 or 5 signature a type 2
\* subpacket gives the creation time only when its value has 4 octets, a
\* type 16 subpacket the key ID (16 upper-case hex characters) only when
\* its value has 8 octets, and every subpacket, of a known type or not, moves
\* the cursor by its declared length: a subpacket of another type or of
\* another length is no error and the subpackets after it are read where
\* they are.
C25_SubpacketWalk ==
    HashedRegionWalked =>
        /\ metadata.parse_error = None
        /\ metadata.version = Some(armor.version)
        /\ metadata.timestamp =
              IF armor.layout = "short_time_issuer" THEN None
              ELSE Some(1700000000)
        /\ metadata.key_id =
              IF armor.layout = "time_long_issuer" THEN None
              ELSE Some(KnownKeyId)
        /\ metadata.algorithm_id = Some(armor.pub_key_algo)

\* a subpacket of an unassigned type, whose value reads like a creation
\* time subpacket, between the creation time and the issuer
C25_Witness ==
    /\ HashedRegionWalked
    /\ armor.layout = "time_unknown_issuer"
    /\ armor.version = 5
    /\ metadata.timestamp = Some(1700000000)
    /\ metadata.key_id = Some(KnownKeyId)

\* a creation time of three octets is not taken, the issuer after it is
C25_WitnessShortTime ==
    /\ HashedRegionWalked
    /\ armor.layout = "short_time_issuer"
    /\ metadata.timestamp = None
    /\ metadata.key_id = Some(KnownKeyId)

\* parse_signature_metadata was given a whole version 3 signature packet
WholeVersion3Parsed ==
    /\ fn = "parse"
    /\ IsWhole(armor)
    /\ armor.tag = 2
    /\ armor.version = 3

\* C26: for a whole version 3 signature packet the parser skips the octet
\* after the version and reads the signature type, the creation time (4
\* octets, big-endian), the key ID (8 octets, as 16 upper-case hex
\* characters), the public-key algorithm ID and the hash algorithm ID, in
\* this order; what follows is not read, and nothing is read as a
\* subpacket: the record holds these fields and no error.
C26_Version3Layout ==
    WholeVersion3Parsed =>
        /\ SubSeq(decoded, HeaderOctets(armor.header) + 1,
                  HeaderOctets(armor.header) + 2) = <<3, 5>>
        /\ metadata.raw_available
        /\ metadata.parse_error = None
        /\ metadata.version = Some(3)
        /\ metadata.signature_type = Some(armor.sig_type)
        /\ metadata.timestamp = Some(1700000000)
        /\ metadata.timestamp_readable = Some([strftime |-> 1700000000])
        /\ metadata.key_id = Some(KnownKeyId)
        /\ metadata.algorithm_id = Some(armor.pub_key_algo)
        /\ metadata.algorithm =
              Some(get_algorithm_name(armor.pub_key_algo))
        /\ metadata.hash_algorithm_id = Some(armor.hash_algo)
        /\ metadata.hash_algorithm =
              Some(get_hash_algorithm_name(armor.hash_algo))

\* the EdDSA/SHA-512 packet of signature type 1 behind an old-format header
C26_Witness ==
    /\ WholeVersion3Parsed
    /\ armor.header = "old1"
    /\ armor.sig_type = 1
    /\ armor.pub_key_algo = 22
    /\ armor.hash_algo = 10
    /\ metadata.signature_type = Some(1)
    /\ metadata.algorithm_id = Some(22)
    /\ metadata.hash_algorithm_id = Some(10)
    /\ metadata.key_id = Some(KnownKeyId)

\* ---------------------------------------------------------------------
\* The web layer: the request handlers of web/app.py and the chunked
\* upload service of web/services/streaming.py.
\* ---------------------------------------------------------------------

\* settings.cleanup_after_hours, settings.max_file_size_bytes,
\* StreamingUpload.CHUNK_SIZE and MAX_CHUNK_SIZE.
CLEANUP_AFTER_HOURS == 24
MAX_FILE_SIZE == 500 * 1024 * 1024
CHUNK_SIZE == 5 * 1024 * 1024
MAX_CHUNK_SIZE == 10 * 1024 * 1024

\* The clock stops here.
MaxClock == 25

ELF_MAGIC == <<127, 69, 76, 70>>

\* validate_file_size
validate_file_size(d, file_path) ==
    /\ Len(d[file_path]) <= MAX_FILE_SIZE
    /\ Len(d[file_path]) # 0

\* validate_elf_header: the magic, then the class octet, then the
\* endianness octet; a read past the end gives fewer octets.
validate_elf_header(d, file_path) ==
    LET data == d[file_path] IN
    /\ Len(data) >= 4
    /\ SubSeq(data, 1, 4) = ELF_MAGIC
    /\ Len(data) >= 5
    /\ data[5] \in {1, 2}
    /\ Len(data) >= 6
    /\ data[6] \in {1, 2}

\* validate_appimage_file (validate_appimage_format accepts every file it
\* can open).
validate_appimage_file(d, file_path) ==
    /\ Exists(d, file_path)
    /\ IsAppImageName(file_path.name)
    /\ validate_file_size(d, file_path)
    /\ validate_elf_header(d, file_path)

\* What every handler leaves behind for the observer: the request, the
\* status it was answered with, and the state it found.
Handled(req, status) ==
    /\ request' = req
    /\ response' = status
    /\ before' = [sessions |-> sessions, upload_sessions |-> upload_sessions,
                  disk |-> disk, clock |-> clock]
    /\ requests' = requests + 1

\* create_session
CreateSession ==
    /\ requests < MaxRequests
    /\ issued < MaxSessions
    /\ LET session_id == issued + 1 IN
       /\ sessions' = [q \in DOMAIN sessions \cup {session_id} |->
                         IF q = session_id THEN SigningSession(clock)
                         ELSE sessions[q]]
       /\ issued' = session_id
       /\ Handled(Request("create_session", session_id), 200)
    /\ UNCHANGED <<upload_sessions, disk, clock>>
    /\ UNCHANGED not_web

\* Time passes.
Tick ==
    /\ \E hours \in {CLEANUP_AFTER_HOURS, CLEANUP_AFTER_HOURS + 1} :
          /\ clock + hours <= MaxClock
          /\ clock' = clock + hours
    /\ UNCHANGED <<sessions, upload_sessions, disk, issued, request,
                   response, before, requests>>
    /\ UNCHANGED not_web

\* upload_appimage
UploadAppimage ==
    /\ requests < MaxRequests
    /\ \E session_id \in SessionIds, filename \in FileNames,
          content \in Contents :
       LET req == [Request("upload_appimage", session_id) EXCEPT
                     !.filename = filename, !.data = content]
           safe_filename == sanitize_filename(filename)
           file_path == Path("uploads", session_id, safe_filename)
           written == Put(disk, file_path, content)
       IN
       IF session_id \notin DOMAIN sessions
       THEN /\ Handled(req, 404)
            /\ UNCHANGED <<sessions, disk>>
       ELSE IF ~IsAppImageName(safe_filename)
       THEN /\ Handled(req, 400)
            /\ UNCHANGED <<sessions, disk>>
       ELSE IF ~validate_appimage_file(written, file_path)
       THEN \* the HTTPException(400) is raised inside the try block
            /\ disk' = Drop(written, file_path)
            /\ sessions' = [sessions EXCEPT ![session_id].error = "400"]
            /\ Handled(req, 500)
       ELSE /\ disk' = written
            /\ sessions' = [sessions EXCEPT
                              ![session_id].appimage_path = file_path,
                              ![session_id].status = "appimage_uploaded"]
            /\ Handled(req, 200)
    /\ UNCHANGED <<upload_sessions, clock, issued>>
    /\ UNCHANGED not_web

\* upload_key
UploadKey ==
    /\ requests < MaxRequests
    /\ \E session_id \in SessionIds :
       LET req == [Request("upload_key", session_id) EXCEPT !.data = TextData]
           key_path == Path("temp_keys", session_id, "private.key")
       IN
       IF session_id \notin DOMAIN sessions
       THEN /\ Handled(req, 404)
            /\ UNCHANGED <<sessions, disk>>
       ELSE /\ disk' = Put(disk, key_path, TextData)
            /\ sessions' = [sessions EXCEPT
                              ![session_id].key_path = key_path,
                              ![session_id].status = "key_uploaded"]
            /\ Handled(req, 200)
    /\ UNCHANGED <<upload_sessions, clock, issued>>
    /\ UNCHANGED not_web

\* upload_signature
UploadSignature ==
    /\ requests < MaxRequests
    /\ \E session_id \in SessionIds :
       LET req == [Request("upload_signature", session_id) EXCEPT
                     !.data = SigData]
       IN
       IF session_id \notin DOMAIN sessions
       THEN /\ Handled(req, 404)
            /\ UNCHANGED disk
       ELSE IF sessions[session_id].appimage_path = NoPath
       THEN /\ Handled(req, 400)
            /\ UNCHANGED disk
       ELSE /\ disk' = Put(disk, Asc(sessions[session_id].appimage_path),
                           SigData)
            /\ Handled(req, 200)
    /\ UNCHANGED <<sessions, upload_sessions, clock, issued>>
    /\ UNCHANGED not_web

\* Form values of a sign request: the key id typed in, the fingerprint
\* picked from the keyring, the passphrase (absent, empty, blank, given).
KeyIds == {None, Some("KEYID")}
KeyFingerprints == {None, Some("PICKED")}
Passphrases == {None, Some(""), Some(" "), Some("secret")}

\* passphrase.strip()
strip(text) == IF text = " " THEN "" ELSE text

\* What GPGKeyManager.import_key_get_fingerprint can do with the uploaded
\* key file, and what AppImageResigner.sign_appimage can do with the copy:
\* sign it and write its .asc, fail before any write, or fail after the
\* .asc was written.
ImportResults == {"fingerprint", "none", "ValueError"}
SignResults == {"signed", "failed", "failed_after_asc"}

\* The session after the except clause at the end of sign_appimage.
SignErrored(session) == [session EXCEPT !.status = "failed", !.error = "error"]

\* sign_appimage
SignAppimage ==
    /\ requests < MaxRequests
    /\ \E session_id \in SessionIds, form_key_id \in KeyIds,
          key_fingerprint \in KeyFingerprints, passphrase \in Passphrases :
       LET req == [Request("sign", session_id) EXCEPT
                     !.key_id = form_key_id,
                     !.key_fingerprint = key_fingerprint,
                     !.passphrase = passphrase]
       IN
       IF session_id \notin DOMAIN sessions
       THEN /\ Handled(req, 404)
            /\ UNCHANGED <<sessions, disk>>
       ELSE IF sessions[session_id].appimage_path = NoPath
       THEN /\ Handled(req, 400)
            /\ UNCHANGED <<sessions, disk>>
       ELSE IF passphrase # None /\ strip(passphrase[1]) = ""
       THEN /\ Handled(req, 400)
            /\ UNCHANGED <<sessions, disk>>
       ELSE
       \* the try block: every exception, HTTPException(400) included,
       \* ends in the except clause and is answered with 500
       LET session == sessions[session_id]
           imports == key_fingerprint = None /\ session.key_path # NoPath
       IN
       \E import_result \in
            (IF imports THEN ImportResults ELSE {"not imported"}) :
       LET imported == IF import_result = "fingerprint"
                       THEN [session EXCEPT !.key_fingerprint = "IMPORTED"]
                       ELSE session
           key_id == IF key_fingerprint # None THEN key_fingerprint
                     ELSE IF import_result = "fingerprint"
                             /\ form_key_id = None
                          THEN Some("IMPORTED")
                     ELSE form_key_id
           output_path == Path("signed", session_id,
                               session.appimage_path.name)
           signature_path == Asc(output_path)
           copied == Put(disk, output_path, disk[session.appimage_path])
       IN
       IF import_result \in {"none", "ValueError"} \/ key_id = None
       THEN /\ sessions' = [sessions EXCEPT ![session_id] =
                              SignErrored(imported)]
            /\ UNCHANGED disk
            /\ Handled(req, 500)
       ELSE IF ~Exists(disk, session.appimage_path)
       THEN \* shutil.copy2 raises FileNotFoundError
            /\ sessions' = [sessions EXCEPT ![session_id] =
                              SignErrored(imported)]
            /\ UNCHANGED disk
            /\ Handled(req, 500)
       ELSE
       \E sign_result \in SignResults :
       IF sign_result = "signed"
       THEN /\ disk' = Put(copied, signature_path, SigData)
            /\ sessions' = [sessions EXCEPT ![session_id] =
                              [imported EXCEPT
                                 !.signed_path = output_path,
                                 !.signature_path = signature_path,
                                 !.status = "signed"]]
            /\ Handled(req, 200)
       ELSE /\ disk' = IF sign_result = "failed_after_asc"
                       THEN Put(copied, signature_path, SigData)
                       ELSE copied
            /\ sessions' = [sessions EXCEPT ![session_id] =
                              SignErrored(imported)]
            /\ Handled(req, 500)
    /\ UNCHANGED <<upload_sessions, clock, issued>>
    /\ UNCHANGED not_web

\* Sizes announced to init_upload (one chunk, two chunks, too large) and
\* the chunk numbers sent to upload_chunk (int(chunk_number) of the form
\* field).
TotalSizes == {1, CHUNK_SIZE + 1, MAX_FILE_SIZE + 1}
ChunkNumbers == {-1, 0, 1, 2}
ChunkedFileNames == {"app.AppImage", "notes.txt"}
FileTypes == {"appimage", "key"}

\* init_chunked_upload and StreamingUpload.init_upload
InitUpload ==
    /\ requests < MaxRequests
    /\ \E session_id \in SessionIds, filename \in ChunkedFileNames,
          total_size \in TotalSizes :
       LET req == [Request("init_upload", session_id) EXCEPT
                     !.filename = filename, !.total_size = total_size]
           total_chunks == (total_size + CHUNK_SIZE - 1) \div CHUNK_SIZE
           upload_session == [filename |-> filename,
                              total_chunks |-> total_chunks,
                              uploaded_chunks |-> EmptyMap,
                              completed |-> FALSE]
       IN
       IF session_id \notin DOMAIN sessions
       THEN /\ Handled(req, 404)
            /\ UNCHANGED <<upload_sessions, disk>>
       ELSE IF total_size > MAX_FILE_SIZE
       THEN /\ Handled(req, 413)
            /\ UNCHANGED <<upload_sessions, disk>>
       ELSE /\ disk' = IF Exists(disk, ChunkDir(session_id)) THEN disk
                       ELSE Put(disk, ChunkDir(session_id), <<>>)
            /\ upload_sessions' =
                 [q \in DOMAIN upload_sessions \cup {session_id} |->
                    IF q = session_id THEN upload_session
                    ELSE upload_sessions[q]]
            /\ Handled(req, 200)
    /\ UNCHANGED <<sessions, clock, issued>>
    /\ UNCHANGED not_web

\* upload_chunk and StreamingUpload.upload_chunk (no checksum is sent; the
\* entry of uploaded_chunks holds the data its md5 checksum stands for)
UploadChunk ==
    /\ requests < MaxRequests
    /\ \E session_id \in SessionIds, chunk_number \in ChunkNumbers,
          chunk_data \in ChunkContents :
       LET req == [Request("upload_chunk", session_id) EXCEPT
                     !.chunk_number = chunk_number, !.data = chunk_data]
           chunk_path == ChunkPath(session_id, chunk_number)
       IN
       IF session_id \notin DOMAIN upload_sessions
       THEN /\ Handled(req, 404)
            /\ UNCHANGED <<upload_sessions, disk>>
       ELSE IF chunk_number >= upload_sessions[session_id].total_chunks
       THEN /\ Handled(req, 400)
            /\ UNCHANGED <<upload_sessions, disk>>
       ELSE IF Len(chunk_data) > MAX_CHUNK_SIZE
       THEN /\ Handled(req, 413)
            /\ UNCHANGED <<upload_sessions, disk>>
       ELSE IF ~Exists(disk, ChunkDir(session_id))
       THEN \* the open fails: the directory was removed by complete_upload
            /\ Handled(req, 500)
            /\ UNCHANGED <<upload_sessions, disk>>
       ELSE /\ disk' = Put(disk, chunk_path, chunk_data)
            /\ upload_sessions' =
                 [upload_sessions EXCEPT ![session_id].uploaded_chunks =
                                            Put(@, chunk_number, chunk_data)]
            /\ Handled(req, 200)
    /\ UNCHANGED <<sessions, clock, issued>>
    /\ UNCHANGED not_web

\* The merge loop of complete_upload from chunk_num on: each chunk is
\* appended to the final file and unlinked; a missing chunk raises.
RECURSIVE merge_chunks(_, _, _, _, _)
merge_chunks(d, session_id, final_path, chunk_num, total_chunks) ==
    LET chunk_path == ChunkPath(session_id, chunk_num) IN
    IF chunk_num >= total_chunks THEN [disk |-> d, raised |-> FALSE]
    ELSE IF ~Exists(d, chunk_path) THEN [disk |-> d, raised |-> TRUE]
    ELSE merge_chunks(
           Drop(Put(d, final_path, d[final_path] \o d[chunk_path]),
                chunk_path),
           session_id, final_path, chunk_num + 1, total_chunks)

\* The files of a chunk directory.
ChunkFiles(d, session_id) ==
    {q \in DOMAIN d : q.dir = "chunks" /\ q.sid = session_id /\ q.name # ""}

\* StreamingUpload.complete_upload after its two checks: the disk it
\* leaves and whether it raised.
complete_upload(d, session_id, final_path, total_chunks) ==
    LET merged == merge_chunks(Put(d, final_path, <<>>), session_id,
                               final_path, 0, total_chunks)
    IN
    IF merged.raised THEN merged
    ELSE IF ~Exists(merged.disk, ChunkDir(session_id)) THEN merged
    ELSE IF ChunkFiles(merged.disk, session_id) # {}
    THEN \* rmdir of a directory that is not empty
         [disk |-> merged.disk, raised |-> TRUE]
    ELSE [disk |-> Drop(merged.disk, ChunkDir(session_id)),
          raised |-> FALSE]

\* complete_chunked_upload
CompleteUpload ==
    /\ requests < MaxRequests
    /\ \E session_id \in SessionIds, file_type \in FileTypes :
       LET req == [Request("complete_upload", session_id) EXCEPT
                     !.file_type = file_type]
       IN
       IF session_id \notin DOMAIN sessions
       THEN /\ Handled(req, 404)
            /\ UNCHANGED <<sessions, upload_sessions, disk>>
       ELSE IF session_id \notin DOMAIN upload_sessions
       THEN /\ Handled(req, 404)
            /\ UNCHANGED <<sessions, upload_sessions, disk>>
       ELSE
       LET upload == upload_sessions[session_id]
           target_dir == IF file_type = "key" THEN "temp_keys" ELSE "uploads"
           final_path == Path(target_dir, session_id, upload.filename)
           completed == complete_upload(disk, session_id, final_path,
                                        upload.total_chunks)
       IN
       IF Cardinality(DOMAIN upload.uploaded_chunks) # upload.total_chunks
       THEN /\ Handled(req, 400)
            /\ UNCHANGED <<sessions, upload_sessions, disk>>
       ELSE IF completed.raised
       THEN /\ disk' = completed.disk
            /\ Handled(req, 500)
            /\ UNCHANGED <<sessions, upload_sessions>>
       ELSE
       /\ upload_sessions' = [upload_sessions EXCEPT
                                ![session_id].completed = TRUE]
       /\ IF file_type = "appimage"
          THEN /\ sessions' = [sessions EXCEPT
                                 ![session_id].appimage_path = final_path,
                                 ![session_id].status = "appimage_uploaded"]
               /\ IF validate_appimage_file(completed.disk, final_path)
                  THEN /\ disk' = completed.disk
                       /\ Handled(req, 200)
                  ELSE /\ disk' = Drop(completed.disk, final_path)
                       /\ Handled(req, 400)
          ELSE /\ sessions' = [sessions EXCEPT
                                 ![session_id].key_path = final_path,
                                 ![session_id].status = "key_uploaded"]
               /\ disk' = completed.disk
               /\ Handled(req, 200)
    /\ UNCHANGED <<clock, issued>>
    /\ UNCHANGED not_web

\* The files cleanup_session unlinks for a session.
TrackedPaths(session) ==
    {session.appimage_path, session.key_path, session.signed_path,
     session.signature_path} \ {NoPath}

\* cleanup_session for each of session_ids, on the sessions and the disk
cleanup_session(session_ids) ==
    LET unlinked == UNION {TrackedPaths(sessions[q]) : q \in session_ids} IN
    /\ disk' = [q \in DOMAIN disk \ unlinked |-> disk[q]]
    /\ sessions' = [q \in DOMAIN sessions \ session_ids |-> sessions[q]]

\* delete_session
DeleteSession ==
    /\ requests < MaxRequests
    /\ \E session_id \in SessionIds :
       LET req == Request("delete_session", session_id) IN
       IF session_id \notin DOMAIN sessions
       THEN /\ Handled(req, 404)
            /\ UNCHANGED <<sessions, disk>>
       ELSE /\ cleanup_session({session_id})
            /\ Handled(req, 200)
    /\ UNCHANGED <<upload_sessions, clock, issued>>
    /\ UNCHANGED not_web

\* cleanup_old_sessions, the hourly job
CleanupOldSessions ==
    /\ requests < MaxRequests
    /\ LET cutoff_time == clock - CLEANUP_AFTER_HOURS
           old_sessions == {q \in DOMAIN sessions :
                              sessions[q].created_at < cutoff_time}
       IN
       /\ cleanup_session(old_sessions)
       /\ Handled(Request("cleanup_old_sessions", 0), 200)
    /\ UNCHANGED <<upload_sessions, clock, issued>>
    /\ UNCHANGED not_web

\* The web layer alone: the command-line state stays as constructed.
WebInit ==
    /\ Quiet
    /\ appimage_exists = FALSE
    /\ appimage = <<>>
    /\ signature_text = <<>>
    /\ armor = UnixSignature
    /\ decoded = <<>>
    /\ metadata = EmptyMetadata
    /\ norm_input = <<>>
    /\ normalized = <<>>

WebNext ==
    \/ CreateSession
    \/ Tick
    \/ UploadAppimage
    \/ UploadKey
    \/ UploadSignature
    \/ SignAppimage
    \/ InitUpload
    \/ UploadChunk
    \/ CompleteUpload
    \/ DeleteSession
    \/ CleanupOldSessions

WebSpec == WebInit /\ [][WebNext]_vars

\* ---------------------------------------------------------------------
\* Claims about the web layer
\* ---------------------------------------------------------------------

\* The last request was a sign request on a session that existed.
SignRequested ==
    /\ request.operation = "sign"
    /\ request.session_id \in DOMAIN before.sessions

\* ... on a session with no uploaded AppImage
SignWithoutAppimage ==
    /\ SignRequested
    /\ before.sessions[request.session_id].appimage_path = NoPath

\* ... on a session with an AppImage but no key fingerprint, no uploaded
\* key and no key id
SignWithoutKey ==
    /\ SignRequested
    /\ before.sessions[request.session_id].appimage_path # NoPath
    /\ before.sessions[request.session_id].key_path = NoPath
    /\ request.key_fingerprint = None
    /\ request.key_id = None

\* ... with an empty passphrase, on a session with an AppImage
SignWithEmptyPassphrase ==
    /\ SignRequested
    /\ before.sessions[request.session_id].appimage_path # NoPath
    /\ request.passphrase # None
    /\ strip(request.passphrase[1]) = ""

\* The files of the signed directory.
SignedFiles(d) == {q \in DOMAIN d : q.dir = "signed"}

\* The request created no signed file and did not move its session to
\* status 'signed'.
NothingSigned ==
    /\ SignedFiles(disk) \subseteq SignedFiles(before.disk)
    /\ sessions[request.session_id].status = "signed" =>
          before.sessions[request.session_id].status = "signed"

\* The part of C23 that holds: none of the three requests creates a signed
\* file or moves the session to 'signed', and the requests without an
\* AppImage or with an empty passphrase are answered with 400.
SignRejected ==
    /\ (SignWithoutAppimage \/ SignWithoutKey \/ SignWithEmptyPassphrase) =>
          /\ NothingSigned
          /\ response \in {400, 500}
    /\ (SignWithoutAppimage \/ SignWithEmptyPassphrase) => response = 400

\* C23: a sign request on a session with no uploaded AppImage, on a session
\* with an AppImage but no key (no key fingerprint, no uploaded key, no key
\* id), or with an empty passphrase is answered with HTTP 400, creates no
\* signed file and does not move the session to status 'signed'.
C23_SignPreconditions ==
    (SignWithoutAppimage \/ SignWithoutKey \/ SignWithEmptyPassphrase) =>
        /\ response = 400
        /\ NothingSigned

\* The upload session the last request was about, as the request found it.
UploadBefore == before.upload_sessions[request.session_id]

\* upload_chunk accepted the chunk of the last request
ChunkAccepted ==
    /\ request.operation = "upload_chunk"
    /\ response = 200

\* The last request asked to complete an upload that was initialised, on a
\* session that exists.
CompleteRequested ==
    /\ request.operation = "complete_upload"
    /\ request.session_id \in DOMAIN before.sessions
    /\ request.session_id \in DOMAIN before.upload_sessions

\* A chunk has been accepted for every index 0..n-1.
EveryIndexAccepted ==
    \A k \in 0..(UploadBefore.total_chunks - 1) :
        k \in DOMAIN UploadBefore.uploaded_chunks

\* complete_upload returned the final path: the request was answered with
\* 200, or with the 400 of the validation that follows the merge.
CompleteSucceeded ==
    \/ response = 200
    \/ /\ response = 400
       /\ request.file_type = "appimage"
       /\ Cardinality(DOMAIN UploadBefore.uploaded_chunks)
            = UploadBefore.total_chunks

\* The latest accepted data of chunks from..n-1 in index order.
RECURSIVE Concatenation(_, _, _)
Concatenation(chunks, from, total_chunks) ==
    IF from >= total_chunks THEN <<>>
    ELSE chunks[from] \o Concatenation(chunks, from + 1, total_chunks)

\* The final file of the upload the last request completed.
FinalPath ==
    Path(IF request.file_type = "key" THEN "temp_keys" ELSE "uploads",
         request.session_id, UploadBefore.filename)

\* The part of C28 that holds: an accepted index is below n; when
\* complete_upload succeeds every index 0..n-1 was accepted and the final
\* file is the concatenation of the latest accepted data; re-uploading an
\* index replaces the chunk and keeps the count.
ChunkedUploadSound ==
    /\ ChunkAccepted => request.chunk_number < UploadBefore.total_chunks
    /\ (CompleteRequested /\ CompleteSucceeded) => EveryIndexAccepted
    /\ (CompleteRequested /\ response = 200) =>
          disk[FinalPath] = Concatenation(UploadBefore.uploaded_chunks, 0,
                                          UploadBefore.total_chunks)
    /\ (ChunkAccepted
        /\ request.chunk_number \in DOMAIN UploadBefore.uploaded_chunks) =>
          LET upload == upload_sessions[request.session_id] IN
          /\ DOMAIN upload.uploaded_chunks = DOMAIN UploadBefore.uploaded_chunks
          /\ upload.uploaded_chunks[request.chunk_number] = request.data
          /\ disk[ChunkPath(request.session_id, request.chunk_number)]
               = request.data

\* C28: for an upload initialised with total_chunks = n, complete_upload
\* succeeds if and only if a chunk has been accepted for every index
\* 0..n-1, and the final file is then the concatenation of the latest
\* accepted data of chunks 0..n-1 in index order; upload_chunk accepts no
\* index outside 0..n-1, and re-uploading an index replaces that chunk
\* without changing the count of uploaded chunks.
C28_ChunkedUploadCompleteness ==
    /\ ChunkedUploadSound
    /\ ChunkAccepted =>
          request.chunk_number \in 0..(UploadBefore.total_chunks - 1)
    /\ CompleteRequested => (CompleteSucceeded <=> EveryIndexAccepted)

\* The session the last request was about, as the request found it.
SessionBefore == before.sessions[request.session_id]

\* The last request was a direct upload, to a session that existed, of a
\* file with an AppImage name whose content fails validate_appimage_file.
DirectUploadInvalid ==
    LET file_path == Path("uploads", request.session_id,
                          sanitize_filename(request.filename))
    IN
    /\ request.operation = "upload_appimage"
    /\ request.session_id \in DOMAIN before.sessions
    /\ IsAppImageName(file_path.name)
    /\ ~validate_appimage_file(Put(EmptyMap, file_path, request.data),
                               file_path)

\* The last request completed a chunked upload of an AppImage whose merged
\* file failed validate_appimage_file.
ChunkedUploadInvalid ==
    /\ CompleteRequested
    /\ request.file_type = "appimage"
    /\ response = 400
    /\ Cardinality(DOMAIN UploadBefore.uploaded_chunks)
         = UploadBefore.total_chunks

\* The path of the file the failed upload was about.
UploadedPath ==
    IF request.operation = "upload_appimage"
    THEN Path("uploads", request.session_id,
              sanitize_filename(request.filename))
    ELSE FinalPath

\* appimage_path and status are as the request found them.
AppimageFieldsKept ==
    /\ sessions[request.session_id].appimage_path = SessionBefore.appimage_path
    /\ sessions[request.session_id].status = SessionBefore.status

\* The part of C29 that holds: an upload that fails validation deletes the
\* file, and through the direct path it leaves appimage_path and status
\* as they were.
InvalidUploadDeleted ==
    /\ (DirectUploadInvalid \/ ChunkedUploadInvalid) =>
          ~Exists(disk, UploadedPath)
    /\ DirectUploadInvalid => AppimageFieldsKept

\* C29: in every reachable state, a session whose appimage_path is set
\* refers to a file that passed validate_appimage_file and still exists; an
\* upload that fails validation, through the direct or the chunked path,
\* deletes the file and leaves appimage_path and status as they were.
C29_SessionAppimageValid ==
    /\ \A session_id \in DOMAIN sessions :
          sessions[session_id].appimage_path # NoPath =>
              validate_appimage_file(disk, sessions[session_id].appimage_path)
    /\ (DirectUploadInvalid \/ ChunkedUploadInvalid) =>
          /\ ~Exists(disk, UploadedPath)
          /\ AppimageFieldsKept

\* The last request removed the session it names: an explicit delete, or
\* the expiry job that found it older than the cutoff.
Removed ==
    IF request.operation = "delete_session"
    THEN {request.session_id} \cap DOMAIN before.sessions
    ELSE IF request.operation = "cleanup_old_sessions"
    THEN DOMAIN before.sessions \ DOMAIN sessions
    ELSE {}

\* The files created on behalf of a session: everything under its id in
\* the upload, signed, key and chunk directories.
FilesOf(d, session_id) ==
    {q \in DOMAIN d : q.sid = session_id /\ q.name # ""}

\* The part of C30 that holds: a removed session is gone from the session
\* map with the four files it tracked, and the expiry job removes no
\* session younger than the retention cutoff.
TrackedFilesRemoved ==
    /\ \A session_id \in Removed :
          /\ session_id \notin DOMAIN sessions
          /\ \A q \in TrackedPaths(before.sessions[session_id]) :
                ~Exists(disk, q)
    /\ request.operation = "cleanup_old_sessions" =>
          \A session_id \in DOMAIN before.sessions :
              before.sessions[session_id].created_at
                  >= before.clock - CLEANUP_AFTER_HOURS
              => session_id \in DOMAIN sessions

\* C30: after cleanup_session(id) (explicit delete or the hourly expiry
\* job), after any sequence of upload, signature-upload, sign and
\* chunked-upload operations on that session, the session is gone from the
\* session map and no file created on its behalf remains on disk (uploaded
\* AppImage, key, uploaded .asc, copied and signed output, chunk files);
\* sessions younger than the retention cutoff are never removed by the
\* expiry job.
C30_CleanupCompleteness ==
    /\ TrackedFilesRemoved
    /\ \A session_id \in Removed : FilesOf(disk, session_id) = {}

====
